---- MODULE Spec2Model ----
(***************************************************************************)
(* Verification model of the metric resolution, aggregation, caching and   *)
(* reactivity-scoring engine of stat-amg.                                  *)
(*                                                                         *)
(*  - SpecCache : concurrent getArtistCardWithMetrics requests against the *)
(*                ARTIST_CARDS table (the per-region metrics cache)        *)
(*  - SpecJob   : the batch job calculateAndStoreReactivityForAllSongs     *)
(*  - SpecAlign : alignTimeSeries / calculateSongReactivity on bounded     *)
(*                inputs                                                   *)
(*                                                                         *)
(* Nullable values (number | null) are modelled as sequences of length at  *)
(* most one: None is null, Some(v) is the value v.                         *)
(***************************************************************************)
EXTENDS Integers, Sequences, FiniteSets, TLC

None == <<>>
Some(v) == <<v>>
IsNone(m) == Len(m) = 0
IsSome(m) == Len(m) = 1
Val(m) == m[1]
\* JavaScript's  x ?? d
OrElse(m, d) == IF IsSome(m) THEN Val(m) ELSE d

\* the elements of a sequence
Range(seq) == {seq[i] : i \in DOMAIN seq}

(***************************************************************************)
(* Bounds of the model.                                                    *)
(***************************************************************************)
MaxTicks == 1
MaxRefreshes == 2

\* two concurrent requests, one artist card, with its two regions
Procs == {1, 2}
CardIds == {1}
Regions == {"US", "GLOBAL"}

(***************************************************************************)
(* artistCardService.ts: cache configuration.                              *)
(***************************************************************************)
CACHE_DURATION_HOURS == 12
CACHE_DURATION_MS == CACHE_DURATION_HOURS * 60 * 60 * 1000

\* The model clock advances in steps of the cache duration, so an entry is
\* read at the age 0 (valid) and at the ages CACHE_DURATION_MS and above.
TickMs == CACHE_DURATION_MS

(***************************************************************************)
(* artistMetricsService.ts: the aggregator.                                *)
(* A "world" is what the warehouse answers during one recomputation:       *)
(*   account  : "found" | "none" | "throws"  (getSpotifyAccountBySpotifyId)*)
(*   rowsOk   : FALSE when a track/mapping/weekly-metric query throws      *)
(*   rows     : the weekly-metric rows returned for the mapped songs       *)
(*   fbOk     : FALSE when the artist-level fallback query throws          *)
(*   fallback : the artist-level record, None when there is no such row    *)
(***************************************************************************)
Row(tw, lw) == [thisWeek |-> tw, lastWeek |-> lw]

RECURSIVE SumRows(_)
SumRows(rows) ==
    IF rows = <<>> THEN [thisWeek |-> 0, lastWeek |-> 0]
    ELSE LET rest == SumRows(Tail(rows))
         IN  [thisWeek |-> rest.thisWeek + OrElse(Head(rows).thisWeek, 0),
              lastWeek |-> rest.lastWeek + OrElse(Head(rows).lastWeek, 0)]

\* aggregateTrackStreamingData: the sums as nullable numbers
aggregateTrackStreamingData(rows) ==
    LET acc == SumRows(rows)
    IN  Row(Some(acc.thisWeek), Some(acc.lastWeek))

\* a test that takes one empty week for empty track metrics
trackMetricsAreEmptyEither(track) ==
    OrElse(track.thisWeek, 0) = 0 \/ OrElse(track.lastWeek, 0) = 0

\* getMetricsWithFallback: [threw, val]; the fallback is fetched only when
\* both track sums are 0
trackMetricsAreEmpty(track) ==
    OrElse(track.thisWeek, 0) = 0 /\ OrElse(track.lastWeek, 0) = 0

\* a fallback that fills each empty week of the track sums on its own
getMetricsWithFallbackBlending(track, w) ==
    LET fb == IF IsSome(w.fallback) THEN Val(w.fallback) ELSE Row(None, None)
        pick(t, f) == IF OrElse(t, 0) = 0 THEN Some(OrElse(f, 0)) ELSE Some(OrElse(t, 0))
    IN  IF OrElse(track.thisWeek, 0) = 0 \/ OrElse(track.lastWeek, 0) = 0
        THEN IF ~w.fbOk THEN [threw |-> TRUE, val |-> Row(None, None)]
             ELSE [threw |-> FALSE,
                   val |-> Row(pick(track.thisWeek, fb.thisWeek), pick(track.lastWeek, fb.lastWeek))]
        ELSE [threw |-> FALSE,
              val |-> Row(Some(OrElse(track.thisWeek, 0)), Some(OrElse(track.lastWeek, 0)))]

getMetricsWithFallback(track, w) ==
    IF trackMetricsAreEmpty(track)
    THEN IF ~w.fbOk THEN [threw |-> TRUE, val |-> Row(None, None)]
         ELSE IF IsSome(w.fallback)
              THEN [threw |-> FALSE,
                    val |-> Row(Some(OrElse(Val(w.fallback).thisWeek, 0)),
                                Some(OrElse(Val(w.fallback).lastWeek, 0)))]
              ELSE [threw |-> FALSE, val |-> Row(Some(0), Some(0))]
    ELSE [threw |-> FALSE,
          val |-> Row(Some(OrElse(track.thisWeek, 0)), Some(OrElse(track.lastWeek, 0)))]

\* a percentage change that is undefined only for a missing previous value
calculatePercentageChangeNullOnly(current, previous) ==
    IF IsNone(previous) THEN None
    ELSE Some(<<OrElse(current, 0) - Val(previous), Val(previous)>>)

\* calculatePercentageChange: None, or Some(<<numerator, denominator>>) for
\* the quotient (current - previous) / previous
calculatePercentageChange(current, previous) ==
    LET currentVal == OrElse(current, 0)
        previousVal == OrElse(previous, 0)
    IN  IF previousVal = 0 THEN None
        ELSE Some(<<currentVal - previousVal, previousVal>>)

\* getArtistStreamingMetrics: Some(metrics) or None; every exception of the
\* steps below is caught and turned into None (lines 343-347)
getArtistStreamingMetrics(w, region) ==
    IF w.account = "throws" THEN None
    ELSE IF w.account = "none" THEN None
    ELSE IF ~w.rowsOk THEN None
    ELSE LET track == aggregateTrackStreamingData(w.rows)
             final == getMetricsWithFallback(track, w)
         IN  IF final.threw THEN None
             ELSE Some([region |-> region,
                        thisWeek |-> OrElse(final.val.thisWeek, 0),
                        lastWeek |-> OrElse(final.val.lastWeek, 0),
                        percentageChange |->
                            calculatePercentageChange(final.val.thisWeek, final.val.lastWeek)])

\* TRUE when the recomputation in world w fails because a query throws
FetchErrors(w) ==
    \/ w.account = "throws"
    \/ w.account = "found" /\ ~w.rowsOk
    \/ w.account = "found" /\ w.rowsOk /\ ~w.fbOk
       /\ trackMetricsAreEmpty(aggregateTrackStreamingData(w.rows))

\* TRUE when the recomputation in world w calls the artist-level fetch
\* getWeeklyAudioMetricsBySpotifyAccountId (line 217)
fallbackFetched(w) ==
    /\ w.account = "found"
    /\ w.rowsOk
    /\ trackMetricsAreEmpty(aggregateTrackStreamingData(w.rows))

World(a, rok, rows, fok, fb) ==
    [account |-> a, rowsOk |-> rok, rows |-> rows, fbOk |-> fok, fallback |-> fb]

Worlds ==
    { World("found", TRUE, <<Row(Some(3), Some(2))>>, TRUE, None),
      World("found", TRUE, <<Row(Some(1), None), Row(Some(1), Some(0))>>, TRUE, None),
      World("found", TRUE, <<>>, TRUE, Some(Row(Some(5), Some(4)))),
      World("found", TRUE, <<>>, FALSE, None),
      World("found", FALSE, <<>>, TRUE, None),
      World("none", TRUE, <<>>, TRUE, None),
      World("throws", TRUE, <<>>, TRUE, None) }

(***************************************************************************)
(* artistCardData.ts: the ARTIST_CARDS row.  Each region has its four      *)
(* cache columns; "by" records, per column, the refresh that wrote it      *)
(* (0: the INSERT that created the card).                                  *)
(***************************************************************************)
Tags(n) == [thisWeek |-> n, lastWeek |-> n, percentChange |-> n, updatedAt |-> n]

EmptyEntry ==
    [thisWeek |-> None, lastWeek |-> None, percentChange |-> None,
     updatedAt |-> None, by |-> Tags(0)]

NewCard == [r \in Regions |-> EmptyEntry]

\* updateArtistCardMetrics leaving the percent-change column as it was
PartialUpdateEntry(old, metrics, ts, refresh) ==
    [thisWeek |-> Some(metrics.thisWeek),
     lastWeek |-> Some(metrics.lastWeek),
     percentChange |-> old.percentChange,
     updatedAt |-> Some(ts),
     by |-> [Tags(refresh) EXCEPT !.percentChange = old.by.percentChange]]

\* updateArtistCardMetrics: the single UPDATE statement sets the three
\* metric columns and the timestamp column of the region
UpdateEntry(old, metrics, ts, refresh) ==
    [thisWeek |-> Some(metrics.thisWeek),
     lastWeek |-> Some(metrics.lastWeek),
     percentChange |-> metrics.percentageChange,
     updatedAt |-> Some(ts),
     by |-> Tags(refresh)]

\* an update that keeps one timestamp for both regions of the card
updateArtistCardMetricsSharedTimestamp(table, artistCardId, region, metrics, ts, refresh) ==
    IF artistCardId \in DOMAIN table
    THEN [table EXCEPT ![artistCardId] =
              [r \in Regions |->
                  IF r = region THEN UpdateEntry(@[r], metrics, ts, refresh)
                  ELSE [@[r] EXCEPT !.updatedAt = Some(ts)]]]
    ELSE table

\* updateArtistCardMetrics on the ARTIST_CARDS table: UPDATE ... SET the
\* columns of the region ... WHERE ID = artistCardId; no row, no change
updateArtistCardMetrics(table, artistCardId, region, metrics, ts, refresh) ==
    IF artistCardId \in DOMAIN table
    THEN [table EXCEPT ![artistCardId][region] = UpdateEntry(@, metrics, ts, refresh)]
    ELSE table

\* isCacheValid with a strict comparison replaced by <=
isCacheValidInclusive(artistCard, region, dateNow) ==
    LET timestamp == artistCard[region].updatedAt
    IN  IF IsNone(timestamp) THEN FALSE
        ELSE dateNow - Val(timestamp) <= CACHE_DURATION_MS

\* isCacheValid
isCacheValid(artistCard, region, dateNow) ==
    LET timestamp == artistCard[region].updatedAt
    IN  IF IsNone(timestamp) THEN FALSE
        ELSE LET cacheAge == dateNow - Val(timestamp)
             IN  cacheAge < CACHE_DURATION_MS

\* the metrics object built from the cached columns (lines 66-72)
cachedMetrics(artistCard, region) ==
    [region |-> region,
     thisWeek |-> OrElse(artistCard[region].thisWeek, 0),
     lastWeek |-> OrElse(artistCard[region].lastWeek, 0),
     percentageChange |-> artistCard[region].percentChange]

(***************************************************************************)
(* State.                                                                  *)
(*   now         : the clock (ms), read by Date.now() and CURRENT_TIMESTAMP*)
(*   cards       : the ARTIST_CARDS table, one row per card id             *)
(*   nextRefresh : the number the next refresh is known by                 *)
(*   call        : per request, the frame of getArtistCardWithMetrics      *)
(***************************************************************************)
VARIABLES now, cards, nextRefresh, call

cacheVars == <<now, cards, nextRefresh, call>>

\* Frame of one getArtistCardWithMetrics(id, region) call.
\*   pc      : "idle", "recalc", "update", "reread" or "done"
\*   card    : the card row the call holds (artistCard, later updatedArtistCard)
\*   fresh   : freshMetricsResponse.metrics
\*   outcome : "null", "returned" (card with metrics) or "threw"
\*   metrics : the metrics field of the returned object
\*   fromCache, recalculated, fetchError : which path the call took
IdleFrame ==
    [pc |-> "idle", id |-> 0, region |-> "US", card |-> NewCard,
     fresh |-> None, refresh |-> 0, outcome |-> "none", metrics |-> None,
     fromCache |-> FALSE, recalculated |-> FALSE, fetchError |-> FALSE]

\* ids a request may name: the existing cards and one id with no row
RequestIds == CardIds \cup {0}

InitCache ==
    /\ now = 0
    /\ cards = [c \in CardIds |-> NewCard]
    /\ nextRefresh = 1
    /\ call = [p \in Procs |-> IdleFrame]

\* no request
ParkedCache == InitCache

\* the table of the update runs: two cards, no metrics stored yet
UpdCardIds == {1, 2}

\* the metrics the recomputations of the worlds produce
UpdMetrics ==
    {Val(getArtistStreamingMetrics(w, r)) :
        w \in {x \in Worlds : IsSome(getArtistStreamingMetrics(x, "US"))}, r \in {"US"}}

InitUpdate ==
    /\ now = 0
    /\ cards = [c \in UpdCardIds |-> NewCard]
    /\ nextRefresh = 1
    /\ call = [p \in Procs |-> IdleFrame]

(***************************************************************************)
(* artistMetricsService.ts: one aggregation, from the artist's tracks to   *)
(* the metrics of the response (getArtistStreamingMetrics, steps 2 to 6).  *)
(***************************************************************************)
MaxTracks == 2
MaxWeekly == 1

\* the unified songs of the warehouse
SongIds == {1, 2}

\* the values of a weekly-metric row
TrackValues == {None} \cup {Some(v) : v \in 0..MaxWeekly}

\* the artist-level records: both weeks, a null week, a zero last week, zeros
FallbackRows ==
    { Row(Some(5), Some(4)), Row(None, Some(4)), Row(Some(5), None),
      Row(Some(5), Some(0)), Row(Some(0), Some(0)) }

\* the track ids of the artist (artistData.trackIds)
TrackIdsUpTo(n) == {[i \in 1..k |-> i] : k \in 0..n}

\* getUnifiedSongIdsBySpotifyTrackIds: the Map from the tracks that have a
\* mapping row to their unified song; mapping[t] = 0 stands for no row
getUnifiedSongIdsBySpotifyTrackIds(spotifyTrackIds, mapping) ==
    [t \in {x \in Range(spotifyTrackIds) : mapping[x] # 0} |-> mapping[t]]

\* Array.from(unifiedIdMap.values()) (line 308), in the order of the tracks
RECURSIVE MapValues(_, _)
MapValues(keys, map) ==
    IF keys = <<>> THEN <<>>
    ELSE IF Head(keys) \in DOMAIN map
         THEN <<map[Head(keys)]>> \o MapValues(Tail(keys), map)
         ELSE MapValues(Tail(keys), map)

\* mapTrackIdsToUnifiedIds followed by line 308: the unified song ids
mapTrackIdsToUnifiedIds(trackIds, mapping) ==
    IF Len(trackIds) = 0 THEN <<>>
    ELSE MapValues(trackIds, getUnifiedSongIdsBySpotifyTrackIds(trackIds, mapping))

\* the songs in ascending order
RECURSIVE Ascending(_)
Ascending(S) ==
    IF S = {} THEN <<>>
    ELSE LET least == CHOOSE x \in S : \A y \in S : x <= y
         IN  <<least>> \o Ascending(S \ {least})

\* rows counted once per requested id, a song requested twice counted twice
RECURSIVE weeklyRowsPerId(_, _)
weeklyRowsPerId(unifiedSongIds, table) ==
    IF unifiedSongIds = <<>> THEN <<>>
    ELSE IF IsSome(table[Head(unifiedSongIds)])
         THEN <<Val(table[Head(unifiedSongIds)])>> \o weeklyRowsPerId(Tail(unifiedSongIds), table)
         ELSE weeklyRowsPerId(Tail(unifiedSongIds), table)

\* getWeeklyAudioMetricsByUnifiedSongIds and weeklyMetricsMap.values():
\* the latest row of each requested song that has one; the Map is keyed by
\* the song, so a song requested twice has one row
weeklyRows(unifiedSongIds, table) ==
    LET found == {s \in Range(unifiedSongIds) : IsSome(table[s])}
        order == Ascending(found)
    IN  [i \in 1..Len(order) |-> Val(table[order[i]])]

\* what the warehouse answers to this aggregation, as a world of the
\* aggregator; throws names the query that throws ("none", "map", "weekly"
\* or "fallback"), and a query that is not sent cannot throw
AggWorld(trackIds, mapping, table, account, throws) ==
    LET ids == mapTrackIdsToUnifiedIds(trackIds, mapping)
        ok == /\ ~(throws = "map" /\ Len(trackIds) > 0)
              /\ ~(throws = "weekly" /\ Len(ids) > 0)
    IN  World("found", ok, IF ok THEN weeklyRows(ids, table) ELSE <<>>,
              throws # "fallback", account)

(***************************************************************************)
(* State of one aggregation.                                               *)
(*   aggPc           : "input" or "done"                                   *)
(*   artistTrackIds  : the artist's Spotify track ids                      *)
(*   songOfTrack     : per track, its unified song (0: no mapping)         *)
(*   weeklyTable     : per song, its latest weekly-metric row, if any      *)
(*   accountRow      : the artist-level record, if any                     *)
(*   aggThrows       : the query that throws                               *)
(*   trackAggregated : the track-level sums, once computed                 *)
(*   fallbackInvoked : whether the artist-level fetch was called           *)
(*   aggResult       : the metrics of the response, None for null          *)
(***************************************************************************)
VARIABLES aggPc, artistTrackIds, songOfTrack, weeklyTable, accountRow, aggThrows,
          trackAggregated, fallbackInvoked, aggResult

aggVars == <<aggPc, artistTrackIds, songOfTrack, weeklyTable, accountRow, aggThrows,
             trackAggregated, fallbackInvoked, aggResult>>

AggIdle ==
    /\ aggPc = "input"
    /\ trackAggregated = None
    /\ fallbackInvoked = FALSE
    /\ aggResult = None

InitAgg ==
    /\ artistTrackIds \in TrackIdsUpTo(MaxTracks)
    /\ songOfTrack \in [Range(artistTrackIds) -> SongIds \cup {0}]
    /\ weeklyTable \in [SongIds -> {None} \cup {Some(Row(tw, lw)) : tw \in TrackValues, lw \in TrackValues}]
    /\ accountRow \in {None} \cup {Some(r) : r \in FallbackRows}
    /\ aggThrows \in {"none", "map", "weekly", "fallback"}
    /\ AggIdle

\* no aggregation
ParkedAgg ==
    /\ artistTrackIds = <<>>
    /\ songOfTrack = <<>>
    /\ weeklyTable = [s \in SongIds |-> None]
    /\ accountRow = None
    /\ aggThrows = "none"
    /\ AggIdle

(***************************************************************************)
(* analysisService.ts: dates.                                              *)
(* A date string 'YYYY-MM-DD' is the triple <<y, m, d>>.  A Date object is *)
(* its time value, counted here in whole days since 1970-01-01 (the code   *)
(* only builds UTC midnights, so the time value is days * 86400000 ms).    *)
(***************************************************************************)
IsLeapYear(y) == (y % 4 = 0 /\ y % 100 # 0) \/ y % 400 = 0

DaysInMonth(y, m) ==
    IF m = 2 THEN (IF IsLeapYear(y) THEN 29 ELSE 28)
    ELSE IF m \in {4, 6, 9, 11} THEN 30 ELSE 31

\* new Date(dateStr + 'T00:00:00Z'): the day number of a civil date
ParseDate(dateStr) ==
    LET y0 == dateStr[1]
        m == dateStr[2]
        d == dateStr[3]
        y == IF m <= 2 THEN y0 - 1 ELSE y0
        era == y \div 400
        yoe == y - era * 400
        mp == IF m > 2 THEN m - 3 ELSE m + 9
        doy == (153 * mp + 2) \div 5 + d - 1
        doe == yoe * 365 + yoe \div 4 - yoe \div 100 + doy
    IN  era * 146097 + doe - 719468

\* date.toISOString().split('T')[0]: the civil date of a day number
ToISODate(t) ==
    LET z == t + 719468
        era == z \div 146097
        doe == z - era * 146097
        yoe == (doe - doe \div 1460 + doe \div 36524 - doe \div 146096) \div 365
        doy == doe - (365 * yoe + yoe \div 4 - yoe \div 100)
        mp == (5 * doy + 2) \div 153
        d == doy - (153 * mp + 2) \div 5 + 1
        m == IF mp < 10 THEN mp + 3 ELSE mp - 9
        y == yoe + era * 400 + (IF m <= 2 THEN 1 ELSE 0)
    IN  <<y, m, d>>

(***************************************************************************)
(* analysisService.ts: alignTimeSeries.                                    *)
(* A series is a sequence of points [date, value], value nullable.         *)
(***************************************************************************)
Point(date, value) == [date |-> date, value |-> value]

\* new Map(series.map(p => [p.date, p.value])): a later entry for a key
\* replaces the earlier one
RECURSIVE MapOfFrom(_, _, _)
MapOfFrom(series, i, m) ==
    IF i > Len(series) THEN m
    ELSE MapOfFrom(series, i + 1,
            [k \in DOMAIN m \cup {series[i].date} |->
                IF k = series[i].date THEN series[i].value ELSE m[k]])

MapOf(series) == MapOfFrom(series, 1, <<>>)

\* map.get(dateStr) ?? null
GetOrNull(m, dateStr) == IF dateStr \in DOMAIN m THEN m[dateStr] ELSE None

\* the while loop of lines 37-42
RECURSIVE AlignLoop(_, _, _, _, _, _)
AlignLoop(current, end, map1, map2, alignedValues1, alignedValues2) ==
    IF current <= end
    THEN LET dateStr == ToISODate(current)
         IN  AlignLoop(current + 1, end, map1, map2,
                       Append(alignedValues1, GetOrNull(map1, dateStr)),
                       Append(alignedValues2, GetOrNull(map2, dateStr)))
    ELSE [alignedValues1 |-> alignedValues1, alignedValues2 |-> alignedValues2]

\* the loop with  current < end
RECURSIVE AlignLoopExclusive(_, _, _, _, _, _)
AlignLoopExclusive(current, end, map1, map2, alignedValues1, alignedValues2) ==
    IF current < end
    THEN LET dateStr == ToISODate(current)
         IN  AlignLoopExclusive(current + 1, end, map1, map2,
                       Append(alignedValues1, GetOrNull(map1, dateStr)),
                       Append(alignedValues2, GetOrNull(map2, dateStr)))
    ELSE [alignedValues1 |-> alignedValues1, alignedValues2 |-> alignedValues2]

\* the loop repeating the previous day's value on a day without a point
LastOr(vals, v) == IF IsNone(v) /\ Len(vals) > 0 THEN vals[Len(vals)] ELSE v

RECURSIVE AlignLoopForwardFill(_, _, _, _, _, _)
AlignLoopForwardFill(current, end, map1, map2, alignedValues1, alignedValues2) ==
    IF current <= end
    THEN LET dateStr == ToISODate(current)
         IN  AlignLoopForwardFill(current + 1, end, map1, map2,
                Append(alignedValues1, LastOr(alignedValues1, GetOrNull(map1, dateStr))),
                Append(alignedValues2, LastOr(alignedValues2, GetOrNull(map2, dateStr))))
    ELSE [alignedValues1 |-> alignedValues1, alignedValues2 |-> alignedValues2]

alignTimeSeriesExclusive(series1, series2, startDate, endDate) ==
    AlignLoopExclusive(ParseDate(startDate), ParseDate(endDate),
                       MapOf(series1), MapOf(series2), <<>>, <<>>)

alignTimeSeriesForwardFill(series1, series2, startDate, endDate) ==
    AlignLoopForwardFill(ParseDate(startDate), ParseDate(endDate),
                         MapOf(series1), MapOf(series2), <<>>, <<>>)

alignTimeSeries(series1, series2, startDate, endDate) ==
    AlignLoop(ParseDate(startDate), ParseDate(endDate),
              MapOf(series1), MapOf(series2), <<>>, <<>>)

(***************************************************************************)
(* analysisService.ts: the scorer.                                         *)
(* A correlation is None (null) or Some([num, den2]) standing for the      *)
(* number num / sqrt(den2); simple-statistics' sampleCorrelation of xs and *)
(* ys is  Sxy / sqrt(Sxx * Syy)  with the sums below, and NaN (0 / 0) when *)
(* one of the two variances is 0.                                          *)
(***************************************************************************)
RECURSIVE SumProd(_, _)
SumProd(xs, ys) ==
    IF xs = <<>> THEN 0 ELSE Head(xs) * Head(ys) + SumProd(Tail(xs), Tail(ys))

Ones(xs) == [i \in 1..Len(xs) |-> 1]

Sxy(xs, ys) == Len(xs) * SumProd(xs, ys) - SumProd(xs, Ones(xs)) * SumProd(ys, Ones(ys))

ZeroCorrelation == [num |-> 0, den2 |-> 1]

\* lines 134-139: sampleCorrelation, NaN replaced by 0
sampleCorrelationOrZero(xs, ys) ==
    IF Sxy(xs, xs) * Sxy(ys, ys) = 0 THEN ZeroCorrelation
    ELSE [num |-> Sxy(xs, ys), den2 |-> Sxy(xs, xs) * Sxy(ys, ys)]

\* c >= p / 100 for a correlation c
GreaterOrEqual(c, p) == c.num > 0 /\ 10000 * c.num * c.num >= p * p * c.den2

\* c > p / 100 for a correlation c
GreaterThan(c, p) == c.num > 0 /\ 10000 * c.num * c.num > p * p * c.den2

\* a grader that gives a missing correlation the lowest grade
mapCorrelationToGradeNullAsD(correlation) ==
    IF IsSome(correlation) /\ GreaterThan(Val(correlation), 90) THEN "A"
    ELSE IF IsSome(correlation) /\ GreaterThan(Val(correlation), 80) THEN "B"
    ELSE IF IsSome(correlation) /\ GreaterThan(Val(correlation), 70) THEN "C"
    ELSE "D"

\* mapCorrelationToGrade
mapCorrelationToGrade(correlation) ==
    IF IsNone(correlation) THEN "N/A"
    ELSE IF GreaterThan(Val(correlation), 90) THEN "A"
    ELSE IF GreaterThan(Val(correlation), 80) THEN "B"
    ELSE IF GreaterThan(Val(correlation), 70) THEN "C"
    ELSE "D"

\* lines 118-126: the values of the days on which both series have a value
RECURSIVE PairedFrom(_, _, _, _, _)
PairedFrom(alignedStreams, alignedUgc, i, streamValues, ugcValues) ==
    IF i > Len(alignedStreams)
    THEN [streamValues |-> streamValues, ugcValues |-> ugcValues]
    ELSE IF IsSome(alignedStreams[i]) /\ IsSome(alignedUgc[i])
         THEN PairedFrom(alignedStreams, alignedUgc, i + 1,
                         Append(streamValues, Val(alignedStreams[i])),
                         Append(ugcValues, Val(alignedUgc[i])))
         ELSE PairedFrom(alignedStreams, alignedUgc, i + 1, streamValues, ugcValues)

NullResult == [correlation |-> None, grade |-> "N/A"]

\* lines 108-126: the paired values of the aligned series
pairedValues(streamingData, ugcData, startDate, endDate) ==
    LET a == alignTimeSeries(streamingData, ugcData, startDate, endDate)
    IN  PairedFrom(a.alignedValues1, a.alignedValues2, 1, <<>>, <<>>)

\* a guard that lets one pair through
enoughPairsAtLeastOne(v) == Len(v.streamValues) > 0 /\ Len(v.ugcValues) > 0

\* line 132: "Need at least 2 points for correlation"
enoughPairs(v) == Len(v.streamValues) > 1 /\ Len(v.ugcValues) > 1

\* a scorer whose NaN stays without a number: null
scoreSeriesNaNAsNull(streamingData, ugcData, startDate, endDate) ==
    LET v == pairedValues(streamingData, ugcData, startDate, endDate)
        correlation ==
            IF enoughPairs(v) /\ Sxy(v.streamValues, v.streamValues) * Sxy(v.ugcValues, v.ugcValues) # 0
            THEN Some(sampleCorrelationOrZero(v.streamValues, v.ugcValues))
            ELSE None
    IN  [correlation |-> correlation, grade |-> mapCorrelationToGrade(correlation)]

\* lines 107-153, from the fetched series to the result
scoreSeries(streamingData, ugcData, startDate, endDate) ==
    LET v == pairedValues(streamingData, ugcData, startDate, endDate)
        correlation ==
            IF enoughPairs(v)
            THEN Some(sampleCorrelationOrZero(v.streamValues, v.ugcValues))
            ELSE None
    IN  [correlation |-> correlation, grade |-> mapCorrelationToGrade(correlation)]

\* calculateSongReactivity.  The warehouse holds streamingData for the song,
\* tiktokSoundIds linked to it and ugcData for those sounds; failed names
\* the query that throws ("none", "stream", "links" or "ugc").  The UGC
\* series is fetched only when a sound is linked.  Any exception is caught
\* and answered by {correlation: null, grade: 'N/A'} (lines 155-158).
calculateSongReactivity(streamingData, tiktokSoundIds, ugcData, failed, startDate, endDate) ==
    IF failed = "stream" THEN NullResult
    ELSE IF failed = "links" THEN NullResult
    ELSE IF Len(tiktokSoundIds) > 0
         THEN IF failed = "ugc" THEN NullResult
              ELSE scoreSeries(streamingData, ugcData, startDate, endDate)
         ELSE scoreSeries(streamingData, <<>>, startDate, endDate)

\* TRUE when a query of calculateSongReactivity throws
ScoreFetchThrows(tiktokSoundIds, failed) ==
    \/ failed \in {"stream", "links"}
    \/ failed = "ugc" /\ Len(tiktokSoundIds) > 0

\* TRUE when the call reaches ss.sampleCorrelation (line 134)
sampleCorrelationCalled(streamingData, tiktokSoundIds, ugcData, failed, startDate, endDate) ==
    /\ ~ScoreFetchThrows(tiktokSoundIds, failed)
    /\ enoughPairs(pairedValues(streamingData,
                                IF Len(tiktokSoundIds) > 0 THEN ugcData ELSE <<>>,
                                startDate, endDate))

(***************************************************************************)
(* Inputs of the aligner and of the scorer.                                *)
(***************************************************************************)
MaxPoints == 2
MaxValue == 2

DateLeq(a, b) ==
    \/ a[1] < b[1]
    \/ a[1] = b[1] /\ a[2] < b[2]
    \/ a[1] = b[1] /\ a[2] = b[2] /\ a[3] <= b[3]

\* date ranges with start <= end: one day, across the leap day, across the
\* end of February of a common year and of 2100, across the end of the
\* year, and two months
AlignRanges ==
    { << <<2024, 2, 29>>, <<2024, 2, 29>> >>,
      << <<2024, 2, 28>>, <<2024, 3, 1>> >>,
      << <<2023, 2, 27>>, <<2023, 3, 1>> >>,
      << <<2100, 2, 28>>, <<2100, 3, 1>> >>,
      << <<2023, 12, 30>>, <<2024, 1, 2>> >>,
      << <<2024, 1, 31>>, <<2024, 3, 31>> >> }

PointDates == { <<2024, 2, 28>>, <<2024, 2, 29>>, <<2024, 3, 2>> }
PointValues == {None, Some(0), Some(2)}
Points == {Point(d, v) : d \in PointDates, v \in PointValues}

\* the series of at most n points in date order (a date may repeat)
SeriesUpTo(n) ==
    UNION { { s \in [1..k -> Points] :
                \A i \in 1..(k - 1) : DateLeq(s[i].date, s[i + 1].date) } :
            k \in 0..n }

\* the scorer's inputs: a fixed range, each day with no point, a null
\* point or a value
ScoreStart == <<2024, 2, 28>>
ScoreEnd == <<2024, 3, 1>>
ScoreDates == << <<2024, 2, 28>>, <<2024, 2, 29>>, <<2024, 3, 1>> >>
ScoreValues == {None} \cup {Some(v) : v \in 0..MaxValue}

RECURSIVE SeriesOver(_)
SeriesOver(dates) ==
    IF dates = <<>> THEN {<<>>}
    ELSE LET rest == SeriesOver(Tail(dates))
         IN  rest \cup { <<Point(Head(dates), v)>> \o r : v \in ScoreValues, r \in rest }

\* the grader's inputs: null and the correlations n / 100
MaxHundredths == 100
Hundredths(n) == [num |-> n, den2 |-> 10000]
GradeInputs == {None} \cup {Some(Hundredths(n)) : n \in (0 - MaxHundredths)..MaxHundredths}

(***************************************************************************)
(* State of the aligner and scorer runs.                                   *)
(*   alPc               : "input", "aligned" or "scored"                   *)
(*   startDate, endDate : the requested range                              *)
(*   series1, series2   : the streaming and the UGC series of the song     *)
(*   soundIds           : the TikTok sounds linked to the song             *)
(*   failed             : the query that threw during scoring              *)
(*   aligned            : the result of alignTimeSeries                    *)
(*   score              : the result of calculateSongReactivity            *)
(*   sampled            : whether the call ran ss.sampleCorrelation        *)
(*   gradeIn            : the correlation given to mapCorrelationToGrade   *)
(***************************************************************************)
VARIABLES alPc, startDate, endDate, series1, series2, soundIds, failed, aligned, score,
          sampled, gradeIn

alignVars == <<alPc, startDate, endDate, series1, series2, soundIds, failed, aligned, score,
               sampled, gradeIn>>

NoAligned == [alignedValues1 |-> <<>>, alignedValues2 |-> <<>>]

InitAlign ==
    /\ alPc = "input"
    /\ \E r \in AlignRanges : startDate = r[1] /\ endDate = r[2]
    /\ series1 \in SeriesUpTo(MaxPoints)
    /\ series2 \in SeriesUpTo(MaxPoints - 1)
    /\ soundIds = <<>>
    /\ failed = "none"
    /\ aligned = NoAligned
    /\ score = NullResult
    /\ sampled = FALSE
    /\ gradeIn = None

InitScore ==
    /\ alPc = "input"
    /\ startDate = ScoreStart
    /\ endDate = ScoreEnd
    /\ series1 \in SeriesOver(ScoreDates)
    /\ series2 \in SeriesOver(ScoreDates)
    /\ soundIds = <<>>
    /\ failed = "none"
    /\ aligned = NoAligned
    /\ score = NullResult
    /\ sampled = FALSE
    /\ gradeIn = None

InitGrade ==
    /\ alPc = "input"
    /\ startDate = ScoreStart
    /\ endDate = ScoreEnd
    /\ series1 = <<>>
    /\ series2 = <<>>
    /\ soundIds = <<>>
    /\ failed = "none"
    /\ aligned = NoAligned
    /\ score = NullResult
    /\ sampled = FALSE
    /\ gradeIn \in GradeInputs

\* no aligner or scorer run
ParkedAlign ==
    /\ alPc = "input"
    /\ startDate = ScoreStart
    /\ endDate = ScoreEnd
    /\ series1 = <<>>
    /\ series2 = <<>>
    /\ soundIds = <<>>
    /\ failed = "none"
    /\ aligned = NoAligned
    /\ score = NullResult
    /\ sampled = FALSE
    /\ gradeIn = None

(***************************************************************************)
(* calculateReactivityJob.ts: the batch job.                               *)
(***************************************************************************)
JOB_MONTHS == 1
JOB_REGION == "US"

NumArtists == 2

\* the day the job runs
JobToday == <<2024, 3, 1>>

\* getIsoDateRangeForJob: setMonth(getMonth() - monthsAgo) keeps the day of
\* the month and lets the Date normalise an overflowing day
getIsoDateRangeForJob(monthsAgo, today) ==
    LET months == today[1] * 12 + (today[2] - 1) - monthsAgo
        shifted == <<months \div 12, (months % 12) + 1, today[3]>>
    IN  [startDate |-> ToISODate(ParseDate(shifted)),
         endDate |-> ToISODate(ParseDate(today))]

\* ARTIST_SONGS and ARTIST_UGC_LINKS rows of one artist card:
\* songs are rows [unifiedSongId], links the UNIFIED_SONG_ID of each link.
\* An artist has no songs, a song without linked UGC, or two linked songs
\* next to a song row and a link without unified song id.
Song(id) == [unifiedSongId |-> id]

ArtistConfig(songs, links) == [songs |-> songs, links |-> links]

ArtistConfigs ==
    { ArtistConfig(<<>>, {}),
      ArtistConfig(<<Song(Some(1))>>, {None}),
      ArtistConfig(<<Song(None), Song(Some(1)), Song(Some(2))>>, {None, Some(1), Some(2)}) }

\* the warehouse's daily series of the songs: song 1 has paired samples,
\* song 2 has none
SongStreams(s) ==
    IF s = 1
    THEN << Point(<<2024, 2, 10>>, Some(1)), Point(<<2024, 2, 11>>, Some(2)),
            Point(<<2024, 2, 12>>, Some(4)) >>
    ELSE << Point(<<2024, 2, 10>>, Some(1)) >>

SongUgc(s) ==
    IF s = 1
    THEN << Point(<<2024, 2, 10>>, Some(1)), Point(<<2024, 2, 11>>, Some(2)),
            Point(<<2024, 2, 12>>, Some(3)) >>
    ELSE << Point(<<2024, 2, 20>>, Some(5)) >>

(***************************************************************************)
(* State of the job.                                                       *)
(*   catalog           : per artist card, its songs and UGC links          *)
(*   jobPc             : "start", "artist", "song" or "done"               *)
(*   artists           : the list getAllArtistsForJob returned             *)
(*   ai, si            : the positions of the two for loops                *)
(*   songsToProcess    : the linked songs of the current artist            *)
(*   songsProcessed, errorsEncountered : the two counters                  *)
(*   scores            : the SONG_REACTIVITY_SCORES table, a list of rows  *)
(*   lastSave          : the source row of the latest MERGE and whether it *)
(*                       matched a row; None before the first              *)
(*   fetchThrew        : the units <<artist, song>> (song 0: the artist's  *)
(*                       own queries) for which a fetch threw              *)
(*   attemptedArtists, attemptedSongs : the units the loops entered        *)
(***************************************************************************)
VARIABLES catalog, jobPc, artists, ai, si, songsToProcess, songsProcessed,
          errorsEncountered, scores, lastSave, fetchThrew, attemptedArtists,
          attemptedSongs

jobVars == <<catalog, jobPc, artists, ai, si, songsToProcess, songsProcessed,
             errorsEncountered, scores, lastSave, fetchThrew, attemptedArtists,
             attemptedSongs>>

ArtistIds == 1..NumArtists

JobIdle ==
    /\ jobPc = "start"
    /\ artists = <<>>
    /\ ai = 1
    /\ si = 1
    /\ songsToProcess = <<>>
    /\ songsProcessed = 0
    /\ errorsEncountered = 0
    /\ scores = <<>>
    /\ lastSave = None
    /\ fetchThrew = {}
    /\ attemptedArtists = {}
    /\ attemptedSongs = {}

InitJob ==
    /\ catalog \in [ArtistIds -> ArtistConfigs]
    /\ JobIdle

\* no job run
ParkedJob ==
    /\ catalog = [a \in ArtistIds |-> ArtistConfig(<<>>, {})]
    /\ JobIdle

(***************************************************************************)
(* artistMetricsService.ts: resolving a Spotify artist URL.                *)
(* A URL string is the record of what `new URL(url)` makes of it: whether  *)
(* it parses, its hostname and its pathname split at '/'.                  *)
(***************************************************************************)
Url(parses, hostname, pathSegments) ==
    [parses |-> parses, hostname |-> hostname, pathSegments |-> pathSegments]

\* the path segments that match /^[a-zA-Z0-9]+$/
AlphaNumeric == {"artist", "album", "a", "b", "x"}

Urls ==
    { Url(FALSE, "", <<>>),
      Url(TRUE, "spotify.com", <<"", "artist", "a">>),
      Url(TRUE, "open.spotify.com", <<"", "artist", "a">>),
      Url(TRUE, "open.spotify.com", <<"", "artist", "b">>),
      Url(TRUE, "open.spotify.com", <<"", "artist", "x">>),
      Url(TRUE, "open.spotify.com", <<"", "artist", "a-b">>),
      Url(TRUE, "open.spotify.com", <<"", "artist", "">>),
      Url(TRUE, "open.spotify.com", <<"", "artist">>),
      Url(TRUE, "open.spotify.com", <<"", "album", "a">>) }

\* Array.prototype.indexOf, counted from 1; 0 when the element is absent
IndexOf(seq, x) ==
    IF \E i \in DOMAIN seq : seq[i] = x
    THEN CHOOSE i \in DOMAIN seq : seq[i] = x /\ \A j \in 1..(i - 1) : seq[j] # x
    ELSE 0

extractSpotifyArtistIdFromUrl(url) ==
    IF ~url.parses THEN None
    ELSE IF url.hostname # "open.spotify.com" THEN None
    ELSE LET pathSegments == url.pathSegments
             artistIndex == IndexOf(pathSegments, "artist")
         IN  IF artistIndex # 0 /\ Len(pathSegments) > artistIndex
             THEN LET artistId == pathSegments[artistIndex + 1]
                  IN  IF artistId # "" /\ artistId \in AlphaNumeric
                      THEN Some(artistId)
                      ELSE None
             ELSE None

\* the rows of spotify_accounts and of spotify_account_tracks
SpotifyAccount(id, spotifyId) == [ID |-> id, SPOTIFY_ID |-> spotifyId]

SpotifyAccounts == {SpotifyAccount(11, "a"), SpotifyAccount(12, "b")}

AccountTracks == {<<11, 1>>, <<11, 2>>}

getSpotifyAccountBySpotifyId(spotifyId) ==
    IF spotifyId = "" THEN None
    ELSE IF \E r \in SpotifyAccounts : r.SPOTIFY_ID = spotifyId
         THEN Some(CHOOSE r \in SpotifyAccounts : r.SPOTIFY_ID = spotifyId)
         ELSE None

getTrackIdsBySpotifyAccountId(accountId) ==
    IF accountId = 0 THEN {}
    ELSE {t[2] : t \in {x \in AccountTracks : x[1] = accountId}}

\* the query of getArtistDataByUrl that throws, if one does
ResolveThrows == {"none", "account", "tracks"}

ArtistData(spotifyArtistId, numericAccountId, trackIds) ==
    [spotifyArtistId |-> spotifyArtistId, numericAccountId |-> numericAccountId,
     trackIds |-> trackIds]

\* what a call of getArtistDataByUrl did: its outcome ("data", "null" or
\* "threw"), the data, and which queries it issued
Resolved(outcome, data, accountQueried, tracksFetched) ==
    [outcome |-> outcome, data |-> data, accountQueried |-> accountQueried,
     tracksFetched |-> tracksFetched]

\* getArtistDataByUrl throwing on an unknown account
getArtistDataByUrlThrowingNotFound(artistUrl, throws) ==
    LET spotifyArtistId == extractSpotifyArtistIdFromUrl(artistUrl)
    IN  IF IsNone(spotifyArtistId) THEN Resolved("null", None, FALSE, FALSE)
        ELSE IF throws = "account" THEN Resolved("threw", None, TRUE, FALSE)
        ELSE LET account == getSpotifyAccountBySpotifyId(Val(spotifyArtistId))
             IN  IF IsNone(account) THEN Resolved("threw", None, TRUE, FALSE)
                 ELSE IF throws = "tracks" THEN Resolved("threw", None, TRUE, TRUE)
                 ELSE Resolved("data",
                               Some(ArtistData(Val(spotifyArtistId), Val(account).ID,
                                               getTrackIdsBySpotifyAccountId(Val(account).ID))),
                               TRUE, TRUE)

getArtistDataByUrl(artistUrl, throws) ==
    LET spotifyArtistId == extractSpotifyArtistIdFromUrl(artistUrl)
    IN  IF IsNone(spotifyArtistId) THEN Resolved("null", None, FALSE, FALSE)
        ELSE IF throws = "account" THEN Resolved("threw", None, TRUE, FALSE)
        ELSE LET account == getSpotifyAccountBySpotifyId(Val(spotifyArtistId))
             IN  IF IsNone(account) THEN Resolved("null", None, TRUE, FALSE)
                 ELSE IF throws = "tracks" THEN Resolved("threw", None, TRUE, TRUE)
                 ELSE Resolved("data",
                               Some(ArtistData(Val(spotifyArtistId), Val(account).ID,
                                               getTrackIdsBySpotifyAccountId(Val(account).ID))),
                               TRUE, TRUE)

(***************************************************************************)
(* artistCardService.ts, artistCardData.ts: findOrCreateArtistCardByUrl.   *)
(*   artistCards     : the rows of the ARTIST_CARDS table, in insert order  *)
(*   uniqueEnforced  : whether the database rejects an INSERT that repeats  *)
(*                     a SPOTIFY_ARTIST_ID (the code expects the error,     *)
(*                     the schema is not part of the program)               *)
(*   creq            : per request, the frame of its call                   *)
(*   createCalls     : the number of calls started                          *)
(***************************************************************************)
MaxCalls == 3

CardRow(id, spotifyArtistId, numericAccountId) ==
    [ID |-> id, SPOTIFY_ARTIST_ID |-> spotifyArtistId,
     NUMERIC_ACCOUNT_ID |-> numericAccountId]

\* the rows a SELECT ... WHERE SPOTIFY_ARTIST_ID = ? LIMIT 1 may answer
\* (LIMIT 1 without ORDER BY: any one of the matching rows)
CardsBySpotifyId(table, spotifyArtistId) ==
    {table[i] : i \in {j \in DOMAIN table : table[j].SPOTIFY_ARTIST_ID = spotifyArtistId}}

VARIABLES artistCards, uniqueEnforced, creq, createCalls

createVars == <<artistCards, uniqueEnforced, creq, createCalls>>

CreateIdle ==
    [pc |-> "idle", url |-> Url(FALSE, "", <<>>), throws |-> "none",
     resolved |-> Resolved("null", None, FALSE, FALSE),
     outcome |-> "none", card |-> None, wrote |-> FALSE]

InitCreate ==
    /\ artistCards = <<>>
    /\ uniqueEnforced \in BOOLEAN
    /\ creq = [p \in Procs |-> CreateIdle]
    /\ createCalls = 0

ParkedCreate ==
    /\ artistCards = <<>>
    /\ uniqueEnforced = TRUE
    /\ creq = <<>>
    /\ createCalls = 0

(***************************************************************************)
(* artistMetricsService.ts: getArtistStreamingMetrics called with a URL.   *)
(*   mUrl, mThrows : the URL and the query of getArtistDataByUrl that      *)
(*                   throws, if one does                                    *)
(*   mWorld        : what the warehouse answers to the later steps          *)
(*   mRegion       : the region asked for                                   *)
(*   mPc           : "input" before the call, "done" after it               *)
(*   mResponse     : what the call returned                                 *)
(***************************************************************************)
\* line 303: the outcome of getArtistDataByUrl as the world's account field
AccountOutcome(resolved) ==
    IF resolved.outcome = "data" THEN "found"
    ELSE IF resolved.outcome = "null" THEN "none"
    ELSE "throws"

\* the world of a call: step 1 answers by the URL, the later steps by w
WorldOfUrl(artistUrl, throws, w) ==
    [w EXCEPT !.account = AccountOutcome(getArtistDataByUrl(artistUrl, throws))]

\* the worlds whose artist is found: what the steps after step 1 can meet
FoundWorlds == {w \in Worlds : w.account = "found"}

VARIABLES mUrl, mThrows, mWorld, mRegion, mPc, mResponse

metricsVars == <<mUrl, mThrows, mWorld, mRegion, mPc, mResponse>>

InitMetrics ==
    /\ mUrl \in Urls
    /\ mThrows \in ResolveThrows
    /\ mWorld \in FoundWorlds
    /\ mRegion \in Regions
    /\ mPc = "input"
    /\ mResponse = None

ParkedMetrics ==
    /\ mUrl = None
    /\ mThrows = "none"
    /\ mWorld = None
    /\ mRegion = "US"
    /\ mPc = "input"
    /\ mResponse = None

(***************************************************************************)
(* tiktok.ts: the lookup cache of getInternalTikTokId.                     *)
(*   tiktokIdCache : the Map from external TikTok ids to the internal id   *)
(*                   (None for a stored null); its domain is the keys      *)
(*   tkReq         : per caller, the frame of its lookup                   *)
(*   tkLookups     : the number of lookups started                         *)
(***************************************************************************)
ExternalTikTokIds == {"e1", "e2"}

\* the TIKTOK_SOUNDS table: the internal ID of an external id, if it has a row
TikTokSoundId(externalTikTokId) ==
    IF externalTikTokId = "e1" THEN Some(7) ELSE None

VARIABLES tiktokIdCache, tkReq, tkLookups

tkVars == <<tiktokIdCache, tkReq, tkLookups>>

TkIdle == [pc |-> "idle", id |-> "e1", outcome |-> "none", value |-> None,
           queried |-> FALSE]

InitTikTok ==
    /\ tiktokIdCache = <<>>
    /\ tkReq = [p \in Procs |-> TkIdle]
    /\ tkLookups = 0

ParkedTikTok ==
    /\ tiktokIdCache = <<>>
    /\ tkReq = <<>>
    /\ tkLookups = 0

(***************************************************************************)
(* artistCardsRouter.ts, artistCardData.ts: the DELETE endpoints and the   *)
(* cached GET endpoints.                                                   *)
(*   cardRows  : the ids of the rows of ARTIST_CARDS                       *)
(*   songRows  : the rows <<card, song>> of ARTIST_SONGS                   *)
(*   linkRows  : the rows <<card, link id>> of ARTIST_UGC_LINKS            *)
(*   apiCache  : apicache's store: per cached route, the response body it  *)
(*               holds (None: no entry)                                    *)
(*   hreq      : per connection, the frame of its request                  *)
(*   hCalls    : the number of requests started                            *)
(*   deleted   : the cards and links whose DELETE was answered with 204    *)
(* A response body is the set of rows it was computed from: <<"card", id>> *)
(* for the card list, <<"link", id>> for a route that reads the UGC links. *)
(***************************************************************************)
DelCardIds == {1, 2}

InitSongRows == {<<1, 1>>, <<1, 2>>, <<2, 3>>}

InitLinkRows == {<<1, 1>>, <<2, 2>>}

\* the ids a DELETE request may carry: no number (NaN), 0, a row's id
DeleteIds == {None, Some(0), Some(1), Some(2)}

\* the cached GET routes: GET / and GET /:id/ugc-timeseries
CachedRoutes == {"cards", "ugc"}

\* what the handler of a cached route reads from the tables
RouteBody(route, cardTable, linkTable) ==
    IF route = "cards" THEN {<<"card", c>> : c \in cardTable}
    ELSE {<<"link", l[2]>> : l \in linkTable}

VARIABLES cardRows, songRows, linkRows, apiCache, hreq, hCalls, deleted

delVars == <<cardRows, songRows, linkRows, apiCache, hreq, hCalls, deleted>>

HIdle ==
    [kind |-> "none", pc |-> "idle", id |-> 0, route |-> "cards", body |-> {},
     fromCache |-> FALSE, deletedBefore |-> {}, steps |-> 0, outcome |-> "none"]

InitDelete ==
    /\ cardRows = DelCardIds
    /\ songRows = InitSongRows
    /\ linkRows = InitLinkRows
    /\ apiCache = [r \in CachedRoutes |-> None]
    /\ hreq = [p \in Procs |-> HIdle]
    /\ hCalls = 0
    /\ deleted = {}

ParkedDelete ==
    /\ cardRows = {}
    /\ songRows = {}
    /\ linkRows = {}
    /\ apiCache = <<>>
    /\ hreq = <<>>
    /\ hCalls = 0
    /\ deleted = {}

(***************************************************************************)
(* The variables of the components, grouped for the UNCHANGED clauses.     *)
(***************************************************************************)
coreVars == <<cacheVars, aggVars, alignVars, jobVars>>

extVars == <<createVars, metricsVars, tkVars, delVars>>

createRest == <<coreVars, metricsVars, tkVars, delVars>>

metricsRest == <<coreVars, createVars, tkVars, delVars>>

tkRest == <<coreVars, createVars, metricsVars, delVars>>

delRest == <<coreVars, createVars, metricsVars, tkVars>>

ParkedExt == ParkedCreate /\ ParkedMetrics /\ ParkedTikTok /\ ParkedDelete

(***************************************************************************)
(* Operations of the metrics cache: getArtistCardWithMetrics.              *)
(***************************************************************************)
\* the frame after the function returned the card with these metrics
Returned(f, metrics) ==
    [f EXCEPT !.pc = "done", !.outcome = "returned", !.metrics = metrics,
              !.fresh = None, !.refresh = 0]

\* the frame after the function threw (lines 108-111) or returned null
Failed(f, outcome) ==
    [IdleFrame EXCEPT !.pc = "done", !.id = f.id, !.region = f.region,
                      !.outcome = outcome]

\* Lines 57-74: getArtistCardById, then the cache check.  A valid cache
\* entry is returned at once; otherwise the request goes on to recalculate.
GetCard(p) ==
    /\ call[p].pc = "idle"
    /\ \E id \in RequestIds, region \in Regions, ok \in BOOLEAN :
         LET f == [IdleFrame EXCEPT !.id = id, !.region = region]
         IN  IF ~ok THEN
                 /\ call' = [call EXCEPT ![p] = Failed(f, "threw")]
                 /\ UNCHANGED nextRefresh
             ELSE IF id \notin CardIds THEN
                 /\ call' = [call EXCEPT ![p] = Failed(f, "null")]
                 /\ UNCHANGED nextRefresh
             ELSE IF isCacheValid(cards[id], region, now) THEN
                 /\ call' = [call EXCEPT ![p] =
                        Returned([f EXCEPT !.card = cards[id], !.fromCache = TRUE],
                                 Some(cachedMetrics(cards[id], region)))]
                 /\ UNCHANGED nextRefresh
             ELSE
                 /\ nextRefresh <= MaxRefreshes
                 /\ call' = [call EXCEPT ![p] =
                        [f EXCEPT !.pc = "recalc", !.card = cards[id],
                                  !.refresh = nextRefresh]]
                 /\ nextRefresh' = nextRefresh + 1
    /\ UNCHANGED <<now, cards>>
    /\ UNCHANGED <<aggVars, alignVars, jobVars, extVars>>

\* Recalc clearing the stored entry when the recomputation failed
RecalcClearing(p) ==
    /\ call[p].pc = "recalc"
    /\ \E w \in Worlds :
         LET f == [call[p] EXCEPT !.recalculated = TRUE]
             freshMetricsResponse == getArtistStreamingMetrics(w, f.region)
         IN  IF IsNone(freshMetricsResponse) THEN
                 /\ call' = [call EXCEPT ![p] =
                        Returned([f EXCEPT !.fetchError = FetchErrors(w)], None)]
                 /\ cards' = [cards EXCEPT ![f.id][f.region] = EmptyEntry]
             ELSE
                 /\ call' = [call EXCEPT ![p] =
                        [f EXCEPT !.pc = "update", !.fresh = freshMetricsResponse]]
                 /\ UNCHANGED cards
    /\ UNCHANGED <<now, nextRefresh>>
    /\ UNCHANGED <<aggVars, alignVars, jobVars, extVars>>

\* Lines 87-96: getArtistStreamingMetrics on the reconstructed URL; a null
\* response returns the card read before, with metrics: null.
Recalc(p) ==
    /\ call[p].pc = "recalc"
    /\ \E w \in Worlds :
         LET f == [call[p] EXCEPT !.recalculated = TRUE]
             freshMetricsResponse == getArtistStreamingMetrics(w, f.region)
         IN  IF IsNone(freshMetricsResponse) THEN
                 call' = [call EXCEPT ![p] =
                     Returned([f EXCEPT !.fetchError = FetchErrors(w)], None)]
             ELSE
                 call' = [call EXCEPT ![p] =
                     [f EXCEPT !.pc = "update", !.fresh = freshMetricsResponse]]
    /\ UNCHANGED <<now, cards, nextRefresh>>
    /\ UNCHANGED <<aggVars, alignVars, jobVars, extVars>>

\* Line 99: updateArtistCardMetrics, one UPDATE statement; it throws when
\* the query fails, and then nothing was written.
UpdateMetrics(p) ==
    /\ call[p].pc = "update"
    /\ \E ok \in BOOLEAN :
         LET f == call[p]
         IN  IF ok THEN
                 /\ cards' = updateArtistCardMetrics(cards, f.id, f.region, Val(f.fresh),
                                                     now, f.refresh)
                 /\ call' = [call EXCEPT ![p].pc = "reread"]
             ELSE
                 /\ call' = [call EXCEPT ![p] = Failed(f, "threw")]
                 /\ UNCHANGED cards
    /\ UNCHANGED <<now, nextRefresh>>
    /\ UNCHANGED <<aggVars, alignVars, jobVars, extVars>>

\* Lines 103-106: the card is read again and returned with the fresh metrics.
Reread(p) ==
    /\ call[p].pc = "reread"
    /\ \E ok \in BOOLEAN :
         LET f == call[p]
         IN  IF ok THEN
                 call' = [call EXCEPT ![p] =
                     Returned([f EXCEPT !.card = cards[f.id]], f.fresh)]
             ELSE
                 call' = [call EXCEPT ![p] = Failed(f, "threw")]
    /\ UNCHANGED <<now, cards, nextRefresh>>
    /\ UNCHANGED <<aggVars, alignVars, jobVars, extVars>>

\* the caller takes the result; the request slot is free again
Finish(p) ==
    /\ call[p].pc = "done"
    /\ call' = [call EXCEPT ![p] = IdleFrame]
    /\ UNCHANGED <<now, cards, nextRefresh>>
    /\ UNCHANGED <<aggVars, alignVars, jobVars, extVars>>

\* time passes
Tick ==
    /\ now < MaxTicks * TickMs
    /\ now' = now + TickMs
    /\ UNCHANGED <<cards, nextRefresh, call>>
    /\ UNCHANGED <<aggVars, alignVars, jobVars, extVars>>

\* updateArtistCardMetrics(artistCardId, region, metrics) called on its own,
\* also for an id without row
UpdateCard ==
    /\ nextRefresh <= MaxRefreshes
    /\ \E id \in UpdCardIds \cup {0}, region \in Regions, metrics \in UpdMetrics :
         cards' = updateArtistCardMetrics(cards, id, region,
                                          [metrics EXCEPT !.region = region],
                                          now, nextRefresh)
    /\ nextRefresh' = nextRefresh + 1
    /\ UNCHANGED <<now, call>>
    /\ UNCHANGED <<aggVars, alignVars, jobVars, extVars>>

NextUpdate ==
    \/ UpdateCard
    \/ Tick

NextCache ==
    \/ \E p \in Procs : GetCard(p)
    \/ \E p \in Procs : Recalc(p)
    \/ \E p \in Procs : UpdateMetrics(p)
    \/ \E p \in Procs : Reread(p)
    \/ \E p \in Procs : Finish(p)
    \/ Tick

(***************************************************************************)
(* Operations of the aggregator.                                           *)
(***************************************************************************)
\* getArtistStreamingMetrics for an artist whose account and tracks were
\* found: lines 307-347
Aggregate ==
    /\ aggPc = "input"
    /\ aggPc' = "done"
    /\ \E region \in Regions :
         LET w == AggWorld(artistTrackIds, songOfTrack, weeklyTable, accountRow, aggThrows)
         IN  /\ trackAggregated' =
                    IF w.rowsOk THEN Some(aggregateTrackStreamingData(w.rows)) ELSE None
             /\ fallbackInvoked' = fallbackFetched(w)
             /\ aggResult' = getArtistStreamingMetrics(w, region)
    /\ UNCHANGED <<artistTrackIds, songOfTrack, weeklyTable, accountRow, aggThrows>>
    /\ UNCHANGED <<cacheVars, alignVars, jobVars, extVars>>

NextAgg == Aggregate

(***************************************************************************)
(* Operations of the aligner and the scorer.                               *)
(***************************************************************************)
\* alignTimeSeries(series1, series2, startDate, endDate)
Align ==
    /\ alPc = "input"
    /\ alPc' = "aligned"
    /\ aligned' = alignTimeSeries(series1, series2, startDate, endDate)
    /\ UNCHANGED <<startDate, endDate, series1, series2, soundIds, failed, score,
                   sampled, gradeIn>>
    /\ UNCHANGED <<cacheVars, aggVars, jobVars, extVars>>

\* calculateSongReactivity for a song with these series in the warehouse
Score ==
    /\ alPc = "input"
    /\ alPc' = "scored"
    /\ \E ids \in {<<>>, <<7>>}, f \in {"none", "stream", "links", "ugc"} :
         /\ soundIds' = ids
         /\ failed' = f
         /\ score' = calculateSongReactivity(series1, ids, series2, f, startDate, endDate)
         /\ sampled' = sampleCorrelationCalled(series1, ids, series2, f, startDate, endDate)
    /\ UNCHANGED <<startDate, endDate, series1, series2, aligned, gradeIn>>
    /\ UNCHANGED <<cacheVars, aggVars, jobVars, extVars>>

\* lines 150-153: the grade of a correlation
Grade ==
    /\ alPc = "input"
    /\ alPc' = "graded"
    /\ score' = [correlation |-> gradeIn, grade |-> mapCorrelationToGrade(gradeIn)]
    /\ UNCHANGED <<startDate, endDate, series1, series2, soundIds, failed, aligned,
                   sampled, gradeIn>>
    /\ UNCHANGED <<cacheVars, aggVars, jobVars, extVars>>

NextAlign == Align

NextScore == Score

NextGrade == Grade

(***************************************************************************)
(* Operations of the batch job: calculateAndStoreReactivityForAllSongs.    *)
(***************************************************************************)
\* a row of SONG_REACTIVITY_SCORES
ScoreRow(unifiedSongId, artistCardId, correlation, grade, region, months, calculatedAt) ==
    [unifiedSongId |-> unifiedSongId, artistCardId |-> artistCardId,
     correlation |-> correlation, grade |-> grade, region |-> region,
     months |-> months, calculatedAt |-> calculatedAt]

\* the columns of the ON clause of the MERGE (lines 46-48)
ScoreKey(unifiedSongId, region, months) == <<unifiedSongId, region, months>>

KeyOf(row) == ScoreKey(row.unifiedSongId, row.region, row.months)

\* TRUE when the MERGE finds a target row for the source row
Matched(table, source) == \E i \in DOMAIN table : KeyOf(table[i]) = KeyOf(source)

\* a save by a plain INSERT
saveReactivityScoreInsertOnly(table, source) == Append(table, source)

\* saveReactivityScore, the MERGE of lines 38-63: every target row with the
\* key of the source row takes its values, and without such a row the
\* source row is inserted
saveReactivityScore(table, source) ==
    IF Matched(table, source)
    THEN [i \in DOMAIN table |->
             IF KeyOf(table[i]) = KeyOf(source) THEN source ELSE table[i]]
    ELSE Append(table, source)

\* the ghost record of a MERGE
SaveRecord(table, source) == Some([source |-> source, matched |-> Matched(table, source)])

\* getAllArtistsForJob: the card ids in ascending order; an error of the
\* query is caught and answered by the empty list (lines 94-97)
JobFetchArtists ==
    /\ jobPc = "start"
    /\ \E ok \in BOOLEAN :
         artists' = IF ok THEN [i \in 1..NumArtists |-> i] ELSE <<>>
    /\ jobPc' = "artist"
    /\ ai' = 1
    /\ UNCHANGED <<catalog, si, songsToProcess, songsProcessed, errorsEncountered,
                   scores, lastSave, fetchThrew, attemptedArtists, attemptedSongs>>
    /\ UNCHANGED <<cacheVars, aggVars, alignVars, extVars>>

\* getArtistSongs and getUgcLinksForArtist of artistDetailData.ts: an error
\* of the query is caught and answered by the empty list
getArtistSongs(a, ok) == IF ok THEN catalog[a].songs ELSE <<>>

getUgcLinksForArtist(a, ok) == IF ok THEN catalog[a].links ELSE {}

\* lines 127-136
LinkedSongs(songs, ugcLinks) ==
    LET songIdsWithUgc == {Val(l) : l \in {x \in ugcLinks : IsSome(x)}}
        Keep(song) == /\ IsSome(song.unifiedSongId)
                      /\ Val(song.unifiedSongId) # 0
                      /\ Val(song.unifiedSongId) \in songIdsWithUgc
    IN  SelectSeq(songs, Keep)

\* JobArtist counting a skipped artist as an error
JobArtistCountingSkips ==
    /\ jobPc = "artist"
    /\ ai <= Len(artists)
    /\ \E okSongs \in BOOLEAN, okLinks \in BOOLEAN :
         LET a == artists[ai]
             songs == getArtistSongs(a, okSongs)
             ugcLinks == getUgcLinksForArtist(a, okLinks)
             todo == IF Len(songs) = 0 THEN <<>> ELSE LinkedSongs(songs, ugcLinks)
         IN  /\ attemptedArtists' = attemptedArtists \cup {a}
             /\ fetchThrew' = IF okSongs /\ okLinks THEN fetchThrew
                              ELSE fetchThrew \cup {<<a, 0>>}
             /\ IF Len(todo) = 0
                THEN /\ ai' = ai + 1
                     /\ errorsEncountered' = errorsEncountered + 1
                     /\ UNCHANGED <<jobPc, si, songsToProcess>>
                ELSE /\ jobPc' = "song"
                     /\ songsToProcess' = todo
                     /\ si' = 1
                     /\ UNCHANGED <<ai, errorsEncountered>>
    /\ UNCHANGED <<catalog, artists, songsProcessed, scores,
                   lastSave, attemptedSongs>>
    /\ UNCHANGED <<cacheVars, aggVars, alignVars, extVars>>

\* Lines 112-143: one iteration of the artist loop up to the song loop.
JobArtist ==
    /\ jobPc = "artist"
    /\ ai <= Len(artists)
    /\ \E okSongs \in BOOLEAN, okLinks \in BOOLEAN :
         LET a == artists[ai]
             songs == getArtistSongs(a, okSongs)
             ugcLinks == getUgcLinksForArtist(a, okLinks)
             todo == IF Len(songs) = 0 THEN <<>> ELSE LinkedSongs(songs, ugcLinks)
         IN  /\ attemptedArtists' = attemptedArtists \cup {a}
             /\ fetchThrew' = IF okSongs /\ okLinks THEN fetchThrew
                              ELSE fetchThrew \cup {<<a, 0>>}
             /\ IF Len(todo) = 0
                THEN /\ ai' = ai + 1
                     /\ UNCHANGED <<jobPc, si, songsToProcess>>
                ELSE /\ jobPc' = "song"
                     /\ songsToProcess' = todo
                     /\ si' = 1
                     /\ UNCHANGED ai
    /\ UNCHANGED <<catalog, artists, songsProcessed, errorsEncountered, scores,
                   lastSave, attemptedSongs>>
    /\ UNCHANGED <<cacheVars, aggVars, alignVars, extVars>>

\* the song loop's last iteration leads back to the artist loop
AfterSong ==
    IF si < Len(songsToProcess)
    THEN /\ si' = si + 1
         /\ UNCHANGED <<jobPc, ai, songsToProcess>>
    ELSE /\ jobPc' = "artist"
         /\ ai' = ai + 1
         /\ si' = 1
         /\ songsToProcess' = <<>>

\* Lines 104, 152-159: what calculateSongReactivity returns for each song of
\* the warehouse over the job's date range, under each outcome of the
\* scorer's queries ("none": all three answer)
JobSongIds == {1, 2}

JobQueryOutcomes == {"none", "stream", "links", "ugc"}

songReactivity ==
    LET range == getIsoDateRangeForJob(JOB_MONTHS, JobToday)
    IN  [s \in JobSongIds |->
          [f \in JobQueryOutcomes |->
            calculateSongReactivity(SongStreams(s), <<7>>, SongUgc(s), f,
                                    range.startDate, range.endDate)]]

\* JobSong counting the song as processed before the save is awaited
JobSongCountingEarly ==
    /\ jobPc = "song"
    /\ \E f \in JobQueryOutcomes, saveOk \in BOOLEAN :
         LET a == artists[ai]
             s == Val(songsToProcess[si].unifiedSongId)
             result == songReactivity[s][f]
         IN  \E source \in {ScoreRow(s, a, result.correlation, result.grade,
                                     JOB_REGION, JOB_MONTHS, now)} :
             /\ attemptedSongs' = attemptedSongs \cup {<<a, s>>}
             /\ fetchThrew' = IF f = "none" THEN fetchThrew
                              ELSE fetchThrew \cup {<<a, s>>}
             /\ songsProcessed' = songsProcessed + 1
             /\ IF saveOk
                THEN /\ scores' = saveReactivityScore(scores, source)
                     /\ lastSave' = SaveRecord(scores, source)
                     /\ UNCHANGED errorsEncountered
                ELSE /\ errorsEncountered' = errorsEncountered + 1
                     /\ UNCHANGED <<scores, lastSave>>
             /\ AfterSong
    /\ UNCHANGED <<catalog, artists, attemptedArtists>>
    /\ UNCHANGED <<cacheVars, aggVars, alignVars, extVars>>

\* JobSong rethrowing a failed save out of the loops
JobSongAborting ==
    /\ jobPc = "song"
    /\ \E f \in JobQueryOutcomes, saveOk \in BOOLEAN :
         LET a == artists[ai]
             s == Val(songsToProcess[si].unifiedSongId)
             result == songReactivity[s][f]
         IN  \E source \in {ScoreRow(s, a, result.correlation, result.grade,
                                     JOB_REGION, JOB_MONTHS, now)} :
             /\ attemptedSongs' = attemptedSongs \cup {<<a, s>>}
             /\ fetchThrew' = IF f = "none" THEN fetchThrew
                              ELSE fetchThrew \cup {<<a, s>>}
             /\ IF saveOk
                THEN /\ scores' = saveReactivityScore(scores, source)
                     /\ lastSave' = SaveRecord(scores, source)
                     /\ songsProcessed' = songsProcessed + 1
                     /\ UNCHANGED errorsEncountered
                     /\ AfterSong
                ELSE /\ errorsEncountered' = errorsEncountered + 1
                     /\ jobPc' = "done"
                     /\ UNCHANGED <<scores, lastSave, songsProcessed, si, ai, songsToProcess>>
    /\ UNCHANGED <<catalog, artists, attemptedArtists>>
    /\ UNCHANGED <<cacheVars, aggVars, alignVars, extVars>>

\* Lines 145-180: one iteration of the song loop.  calculateSongReactivity
\* never throws; saveReactivityScore throws when its query fails, and the
\* catch of the loop body counts an error.
JobSong ==
    /\ jobPc = "song"
    /\ \E f \in JobQueryOutcomes, saveOk \in BOOLEAN :
         LET a == artists[ai]
             s == Val(songsToProcess[si].unifiedSongId)
             result == songReactivity[s][f]
         IN  \E source \in {ScoreRow(s, a, result.correlation, result.grade,
                                     JOB_REGION, JOB_MONTHS, now)} :
             /\ attemptedSongs' = attemptedSongs \cup {<<a, s>>}
             /\ fetchThrew' = IF f = "none" THEN fetchThrew
                              ELSE fetchThrew \cup {<<a, s>>}
             /\ IF saveOk
                THEN /\ scores' = saveReactivityScore(scores, source)
                     /\ lastSave' = SaveRecord(scores, source)
                     /\ songsProcessed' = songsProcessed + 1
                     /\ UNCHANGED errorsEncountered
                ELSE /\ errorsEncountered' = errorsEncountered + 1
                     /\ UNCHANGED <<scores, lastSave, songsProcessed>>
             /\ AfterSong
    /\ UNCHANGED <<catalog, artists, attemptedArtists>>
    /\ UNCHANGED <<cacheVars, aggVars, alignVars, extVars>>

\* Lines 193-194: the loops are over, the summary is logged.
JobSummary ==
    /\ jobPc = "artist"
    /\ ai > Len(artists)
    /\ jobPc' = "done"
    /\ UNCHANGED <<catalog, artists, ai, si, songsToProcess, songsProcessed,
                   errorsEncountered, scores, lastSave, fetchThrew, attemptedArtists,
                   attemptedSongs>>
    /\ UNCHANGED <<cacheVars, aggVars, alignVars, extVars>>

NextJob ==
    \/ JobFetchArtists
    \/ JobArtist
    \/ JobSong
    \/ JobSummary

\* the keys and values of the saves made on their own: keys that differ in
\* the song, in the region and in the window; two results of two artists
SaveKeys ==
    { ScoreKey(1, JOB_REGION, JOB_MONTHS), ScoreKey(2, JOB_REGION, JOB_MONTHS),
      ScoreKey(1, "GLOBAL", JOB_MONTHS), ScoreKey(1, JOB_REGION, JOB_MONTHS + 2) }

SaveValues ==
    { [artistCardId |-> 1, result |-> NullResult],
      [artistCardId |-> 2, result |-> [correlation |-> Some(ZeroCorrelation), grade |-> "D"]] }

\* saveReactivityScore called on its own, at the time of the clock
SaveScore ==
    /\ \E k \in SaveKeys, v \in SaveValues :
         LET source == ScoreRow(k[1], v.artistCardId, v.result.correlation,
                                v.result.grade, k[2], k[3], now)
         IN  /\ scores' = saveReactivityScore(scores, source)
             /\ lastSave' = SaveRecord(scores, source)
    /\ UNCHANGED <<catalog, jobPc, artists, ai, si, songsToProcess, songsProcessed,
                   errorsEncountered, fetchThrew, attemptedArtists, attemptedSongs>>
    /\ UNCHANGED <<cacheVars, aggVars, alignVars, extVars>>

NextSave ==
    \/ SaveScore
    \/ Tick

(***************************************************************************)
(* Operations of findOrCreateArtistCardByUrl (artistCardService.ts 122-160) *)
(* and createArtistCard (artistCardData.ts 75-103), one action per await.  *)
(***************************************************************************)
\* Lines 129-134: getArtistDataByUrl; null ends the call with null, an error
\* of it leaves the function (the call is outside the try block)
FindOrCreateStart(p) ==
    /\ creq[p].pc = "idle"
    /\ createCalls < MaxCalls
    /\ createCalls' = createCalls + 1
    /\ \E url \in Urls, throws \in ResolveThrows :
         LET tempArtistData == getArtistDataByUrl(url, throws)
             f == [CreateIdle EXCEPT !.url = url, !.throws = throws,
                                     !.resolved = tempArtistData]
         IN  creq' = [creq EXCEPT ![p] =
                 IF tempArtistData.outcome = "data" THEN [f EXCEPT !.pc = "check"]
                 ELSE [f EXCEPT !.pc = "done", !.outcome = tempArtistData.outcome]]
    /\ UNCHANGED <<artistCards, uniqueEnforced>>
    /\ UNCHANGED createRest

\* Lines 138-143: getArtistCardBySpotifyId; an existing card is returned
FindOrCreateCheck(p) ==
    /\ creq[p].pc = "check"
    /\ \E ok \in BOOLEAN :
         LET spotifyArtistId == Val(creq[p].resolved.data).spotifyArtistId
             found == CardsBySpotifyId(artistCards, spotifyArtistId)
         IN  IF ~ok
             THEN creq' = [creq EXCEPT ![p].pc = "done", ![p].outcome = "threw"]
             ELSE IF found # {}
             THEN \E existingCard \in found :
                    creq' = [creq EXCEPT ![p].pc = "done", ![p].outcome = "found",
                                         ![p].card = Some(existingCard)]
             ELSE creq' = [creq EXCEPT ![p].pc = "insert"]
    /\ UNCHANGED <<artistCards, uniqueEnforced, createCalls>>
    /\ UNCHANGED createRest

\* createArtistCard, lines 76-90: the INSERT; it throws when the query fails
\* or when the database enforces the unique SPOTIFY_ARTIST_ID and the id is
\* already there
createArtistCardInsert(p) ==
    /\ creq[p].pc = "insert"
    /\ \E ok \in BOOLEAN :
         LET data == Val(creq[p].resolved.data)
             duplicate == CardsBySpotifyId(artistCards, data.spotifyArtistId) # {}
         IN  IF ~ok \/ (uniqueEnforced /\ duplicate)
             THEN /\ creq' = [creq EXCEPT ![p].pc = "done", ![p].outcome = "threw"]
                  /\ UNCHANGED artistCards
             ELSE /\ artistCards' = Append(artistCards,
                         CardRow(Len(artistCards) + 1, data.spotifyArtistId,
                                 data.numericAccountId))
                  /\ creq' = [creq EXCEPT ![p].pc = "readback", ![p].wrote = TRUE]
    /\ UNCHANGED <<uniqueEnforced, createCalls>>
    /\ UNCHANGED createRest

\* createArtistCard, lines 92-98: the row is read back by its Spotify id
createArtistCardReadBack(p) ==
    /\ creq[p].pc = "readback"
    /\ \E ok \in BOOLEAN :
         LET found == CardsBySpotifyId(artistCards,
                                       Val(creq[p].resolved.data).spotifyArtistId)
         IN  IF ~ok \/ found = {}
             THEN creq' = [creq EXCEPT ![p].pc = "done", ![p].outcome = "threw"]
             ELSE \E newCard \in found :
                    creq' = [creq EXCEPT ![p].pc = "done", ![p].outcome = "created",
                                         ![p].card = Some(newCard)]
    /\ UNCHANGED <<artistCards, uniqueEnforced, createCalls>>
    /\ UNCHANGED createRest

\* the request is answered and the next one may start
FindOrCreateFinish(p) ==
    /\ creq[p].pc = "done"
    /\ creq' = [creq EXCEPT ![p] = CreateIdle]
    /\ UNCHANGED <<artistCards, uniqueEnforced, createCalls>>
    /\ UNCHANGED createRest

NextCreate ==
    \E p \in Procs :
        \/ FindOrCreateStart(p)
        \/ FindOrCreateCheck(p)
        \/ createArtistCardInsert(p)
        \/ createArtistCardReadBack(p)
        \/ FindOrCreateFinish(p)

(***************************************************************************)
(* One call of getArtistStreamingMetrics (artistMetricsService.ts 300-348). *)
(***************************************************************************)
GetMetrics ==
    /\ mPc = "input"
    /\ mResponse' = getArtistStreamingMetrics(WorldOfUrl(mUrl, mThrows, mWorld), mRegion)
    /\ mPc' = "done"
    /\ UNCHANGED <<mUrl, mThrows, mWorld, mRegion>>
    /\ UNCHANGED metricsRest

NextMetrics == GetMetrics

(***************************************************************************)
(* Operations of getInternalTikTokId (tiktok.ts 309-349).                  *)
(***************************************************************************)
\* Lines 310-314: a cached id is returned without a query
getInternalTikTokIdCheck(p) ==
    /\ tkReq[p].pc = "idle"
    /\ tkLookups < MaxCalls
    /\ tkLookups' = tkLookups + 1
    /\ \E externalTikTokId \in ExternalTikTokIds :
         tkReq' = [tkReq EXCEPT ![p] =
             IF externalTikTokId \in DOMAIN tiktokIdCache
             THEN [TkIdle EXCEPT !.pc = "done", !.id = externalTikTokId,
                                 !.outcome = "hit",
                                 !.value = tiktokIdCache[externalTikTokId]]
             ELSE [TkIdle EXCEPT !.pc = "query", !.id = externalTikTokId]]
    /\ UNCHANGED tiktokIdCache
    /\ UNCHANGED tkRest

\* getInternalTikTokId storing null when the query throws
getInternalTikTokIdQueryCachingErrors(p) ==
    /\ tkReq[p].pc = "query"
    /\ \E ok \in BOOLEAN :
         LET externalTikTokId == tkReq[p].id
             internalId == TikTokSoundId(externalTikTokId)
         IN  IF ok
             THEN /\ tiktokIdCache' =
                        [k \in DOMAIN tiktokIdCache \cup {externalTikTokId} |->
                            IF k = externalTikTokId THEN internalId ELSE tiktokIdCache[k]]
                  /\ tkReq' = [tkReq EXCEPT ![p].pc = "done", ![p].queried = TRUE,
                                            ![p].outcome = "stored",
                                            ![p].value = internalId]
             ELSE /\ tiktokIdCache' =
                        [k \in DOMAIN tiktokIdCache \cup {externalTikTokId} |->
                            IF k = externalTikTokId THEN None ELSE tiktokIdCache[k]]
                  /\ tkReq' = [tkReq EXCEPT ![p].pc = "done", ![p].queried = TRUE,
                                            ![p].outcome = "threw"]
    /\ UNCHANGED tkLookups
    /\ UNCHANGED tkRest

\* Lines 318-348: the query; its answer (the id, or null for no row) is
\* stored and returned, an error is rethrown and nothing is stored
getInternalTikTokIdQuery(p) ==
    /\ tkReq[p].pc = "query"
    /\ \E ok \in BOOLEAN :
         LET externalTikTokId == tkReq[p].id
             internalId == TikTokSoundId(externalTikTokId)
         IN  IF ok
             THEN /\ tiktokIdCache' =
                        [k \in DOMAIN tiktokIdCache \cup {externalTikTokId} |->
                            IF k = externalTikTokId THEN internalId ELSE tiktokIdCache[k]]
                  /\ tkReq' = [tkReq EXCEPT ![p].pc = "done", ![p].queried = TRUE,
                                            ![p].outcome = "stored",
                                            ![p].value = internalId]
             ELSE /\ tkReq' = [tkReq EXCEPT ![p].pc = "done", ![p].queried = TRUE,
                                            ![p].outcome = "threw"]
                  /\ UNCHANGED tiktokIdCache
    /\ UNCHANGED tkLookups
    /\ UNCHANGED tkRest

\* the caller takes the result and may look up again
getInternalTikTokIdReturn(p) ==
    /\ tkReq[p].pc = "done"
    /\ tkReq' = [tkReq EXCEPT ![p] = TkIdle]
    /\ UNCHANGED <<tiktokIdCache, tkLookups>>
    /\ UNCHANGED tkRest

NextTikTok ==
    \E p \in Procs :
        \/ getInternalTikTokIdCheck(p)
        \/ getInternalTikTokIdQuery(p)
        \/ getInternalTikTokIdReturn(p)

(***************************************************************************)
(* The DELETE handlers and deleteArtistCard / deleteUgcLink, one action    *)
(* per await; the cached GET handlers.                                     *)
(***************************************************************************)
\* router.delete('/:id'), lines 637-648, up to the first await of
\* deleteArtistCard (lines 412-430): a NaN id is answered 400 at once;
\* otherwise the whole response cache is cleared, and id 0 makes
\* deleteArtistCard return false (500)
DeleteCardStart(p) ==
    /\ hreq[p].pc = "idle"
    /\ hCalls < MaxCalls
    /\ hCalls' = hCalls + 1
    /\ \E id \in DeleteIds :
         LET f == [HIdle EXCEPT !.kind = "deleteCard"]
         IN  IF IsNone(id)
             THEN /\ hreq' = [hreq EXCEPT ![p] = [f EXCEPT !.pc = "done", !.outcome = "400"]]
                  /\ UNCHANGED apiCache
             ELSE /\ apiCache' = [r \in CachedRoutes |-> None]
                  /\ hreq' = [hreq EXCEPT ![p] =
                         IF Val(id) = 0
                         THEN [f EXCEPT !.pc = "done", !.outcome = "500"]
                         ELSE [f EXCEPT !.pc = "songs", !.id = Val(id)]]
    /\ UNCHANGED <<cardRows, songRows, linkRows, deleted>>
    /\ UNCHANGED delRest

\* deleteArtistCard, lines 432-434: DELETE FROM ARTIST_SONGS
deleteArtistCardSongs(p) ==
    /\ hreq[p].kind = "deleteCard"
    /\ hreq[p].pc = "songs"
    /\ \E ok \in BOOLEAN :
         IF ok
         THEN /\ songRows' = {r \in songRows : r[1] # hreq[p].id}
              /\ hreq' = [hreq EXCEPT ![p].pc = "links", ![p].steps = 1]
         ELSE /\ hreq' = [hreq EXCEPT ![p].pc = "done", ![p].outcome = "threw"]
              /\ UNCHANGED songRows
    /\ UNCHANGED <<cardRows, linkRows, apiCache, hCalls, deleted>>
    /\ UNCHANGED delRest

\* deleteArtistCard going on to the card row after a failed link deletion
deleteArtistCardLinksIgnoringError(p) ==
    /\ hreq[p].kind = "deleteCard"
    /\ hreq[p].pc = "links"
    /\ \E ok \in BOOLEAN :
         IF ok
         THEN /\ linkRows' = {r \in linkRows : r[1] # hreq[p].id}
              /\ hreq' = [hreq EXCEPT ![p].pc = "card", ![p].steps = 2]
         ELSE /\ hreq' = [hreq EXCEPT ![p].pc = "card"]
              /\ UNCHANGED linkRows
    /\ UNCHANGED <<cardRows, songRows, apiCache, hCalls, deleted>>
    /\ UNCHANGED delRest

\* deleteArtistCard, lines 436-438: DELETE FROM ARTIST_UGC_LINKS
deleteArtistCardLinks(p) ==
    /\ hreq[p].kind = "deleteCard"
    /\ hreq[p].pc = "links"
    /\ \E ok \in BOOLEAN :
         IF ok
         THEN /\ linkRows' = {r \in linkRows : r[1] # hreq[p].id}
              /\ hreq' = [hreq EXCEPT ![p].pc = "card", ![p].steps = 2]
         ELSE /\ hreq' = [hreq EXCEPT ![p].pc = "done", ![p].outcome = "threw"]
              /\ UNCHANGED linkRows
    /\ UNCHANGED <<cardRows, songRows, apiCache, hCalls, deleted>>
    /\ UNCHANGED delRest

\* deleteArtistCard, lines 440-444, and lines 650-651 of the handler:
\* DELETE FROM ARTIST_CARDS, true, 204
deleteArtistCardRow(p) ==
    /\ hreq[p].kind = "deleteCard"
    /\ hreq[p].pc = "card"
    /\ \E ok \in BOOLEAN :
         IF ok
         THEN /\ cardRows' = cardRows \ {hreq[p].id}
              /\ hreq' = [hreq EXCEPT ![p].pc = "respond", ![p].steps = @ + 1]
         ELSE /\ hreq' = [hreq EXCEPT ![p].pc = "done", ![p].outcome = "threw"]
              /\ UNCHANGED cardRows
    /\ UNCHANGED <<songRows, linkRows, apiCache, hCalls, deleted>>
    /\ UNCHANGED delRest

\* lines 650-651: the handler resumes with true and answers 204
DeleteCardRespond(p) ==
    /\ hreq[p].kind = "deleteCard"
    /\ hreq[p].pc = "respond"
    /\ hreq' = [hreq EXCEPT ![p].pc = "done", ![p].outcome = "204"]
    /\ deleted' = deleted \cup {<<"card", hreq[p].id>>}
    /\ UNCHANGED <<cardRows, songRows, linkRows, apiCache, hCalls>>
    /\ UNCHANGED delRest

\* router.delete('/:artistId/ugc-links/:linkId'), lines 665-678, up to the
\* await of deleteUgcLink (lines 274-279)
DeleteLinkStart(p) ==
    /\ hreq[p].pc = "idle"
    /\ hCalls < MaxCalls
    /\ hCalls' = hCalls + 1
    /\ \E id \in DeleteIds :
         LET f == [HIdle EXCEPT !.kind = "deleteLink"]
         IN  IF IsNone(id)
             THEN /\ hreq' = [hreq EXCEPT ![p] = [f EXCEPT !.pc = "done", !.outcome = "400"]]
                  /\ UNCHANGED apiCache
             ELSE /\ apiCache' = [r \in CachedRoutes |-> None]
                  /\ hreq' = [hreq EXCEPT ![p] =
                         IF Val(id) = 0
                         THEN [f EXCEPT !.pc = "done", !.outcome = "500"]
                         ELSE [f EXCEPT !.pc = "link", !.id = Val(id)]]
    /\ UNCHANGED <<cardRows, songRows, linkRows, deleted>>
    /\ UNCHANGED delRest

\* deleteUgcLink, lines 281-294: DELETE FROM ARTIST_UGC_LINKS WHERE ID = ?
deleteUgcLink(p) ==
    /\ hreq[p].kind = "deleteLink"
    /\ hreq[p].pc = "link"
    /\ \E ok \in BOOLEAN :
         IF ok
         THEN /\ linkRows' = {r \in linkRows : r[2] # hreq[p].id}
              /\ hreq' = [hreq EXCEPT ![p].pc = "respond", ![p].steps = 1]
         ELSE /\ hreq' = [hreq EXCEPT ![p].pc = "done", ![p].outcome = "threw"]
              /\ UNCHANGED linkRows
    /\ UNCHANGED <<cardRows, songRows, apiCache, hCalls, deleted>>
    /\ UNCHANGED delRest

\* lines 680-681: the handler resumes with true and answers 204
DeleteLinkRespond(p) ==
    /\ hreq[p].kind = "deleteLink"
    /\ hreq[p].pc = "respond"
    /\ hreq' = [hreq EXCEPT ![p].pc = "done", ![p].outcome = "204"]
    /\ deleted' = deleted \cup {<<"link", hreq[p].id>>}
    /\ UNCHANGED <<cardRows, songRows, linkRows, apiCache, hCalls>>
    /\ UNCHANGED delRest

\* cacheSuccesses (lines 31-34) in front of a GET handler: a stored response
\* is served at once; otherwise the handler runs
CachedGetStart(p) ==
    /\ hreq[p].pc = "idle"
    /\ hCalls < MaxCalls
    /\ hCalls' = hCalls + 1
    /\ \E route \in CachedRoutes :
         LET f == [HIdle EXCEPT !.kind = "get", !.route = route]
         IN  hreq' = [hreq EXCEPT ![p] =
                 IF IsSome(apiCache[route])
                 THEN [f EXCEPT !.pc = "done", !.outcome = "200", !.fromCache = TRUE,
                                !.body = Val(apiCache[route]),
                                !.deletedBefore = deleted]
                 ELSE [f EXCEPT !.pc = "read"]]
    /\ UNCHANGED <<cardRows, songRows, linkRows, apiCache, deleted>>
    /\ UNCHANGED delRest

\* the handler's query (line 84: listArtistCards) is answered by the tables
\* as they are when it runs; a failed query ends the request with an error
CachedGetRead(p) ==
    /\ hreq[p].kind = "get"
    /\ hreq[p].pc = "read"
    /\ \E ok \in BOOLEAN :
         hreq' = [hreq EXCEPT ![p] =
             IF ok THEN [@ EXCEPT !.pc = "send",
                                  !.body = RouteBody(hreq[p].route, cardRows, linkRows)]
             ELSE [@ EXCEPT !.pc = "done", !.outcome = "threw"]]
    /\ UNCHANGED <<cardRows, songRows, linkRows, apiCache, hCalls, deleted>>
    /\ UNCHANGED delRest

\* line 85: res.status(200).json(...); the middleware stores the response
CachedGetSend(p) ==
    /\ hreq[p].kind = "get"
    /\ hreq[p].pc = "send"
    /\ apiCache' = [apiCache EXCEPT ![hreq[p].route] = Some(hreq[p].body)]
    /\ hreq' = [hreq EXCEPT ![p].pc = "done", ![p].outcome = "200"]
    /\ UNCHANGED <<cardRows, songRows, linkRows, hCalls, deleted>>
    /\ UNCHANGED delRest

\* the response is out and the connection takes its next request
RequestDone(p) ==
    /\ hreq[p].pc = "done"
    /\ hreq' = [hreq EXCEPT ![p] = HIdle]
    /\ UNCHANGED <<cardRows, songRows, linkRows, apiCache, hCalls, deleted>>
    /\ UNCHANGED delRest

NextDelete ==
    \E p \in Procs :
        \/ DeleteCardStart(p)
        \/ deleteArtistCardSongs(p)
        \/ deleteArtistCardLinks(p)
        \/ deleteArtistCardRow(p)
        \/ DeleteCardRespond(p)
        \/ DeleteLinkStart(p)
        \/ deleteUgcLink(p)
        \/ DeleteLinkRespond(p)
        \/ CachedGetStart(p)
        \/ CachedGetRead(p)
        \/ CachedGetSend(p)
        \/ RequestDone(p)

(***************************************************************************)
(* Specifications.                                                         *)
(***************************************************************************)
vars == <<cacheVars, aggVars, alignVars, jobVars, extVars>>

\* Initial states: one component starts, the others stay parked.
InitCacheOnly == InitCache /\ ParkedAgg /\ ParkedAlign /\ ParkedJob /\ ParkedExt

InitUpdateOnly == InitUpdate /\ ParkedAgg /\ ParkedAlign /\ ParkedJob /\ ParkedExt

InitAggOnly == ParkedCache /\ InitAgg /\ ParkedAlign /\ ParkedJob /\ ParkedExt

InitAlignOnly == ParkedCache /\ ParkedAgg /\ InitAlign /\ ParkedJob /\ ParkedExt

InitScoreOnly == ParkedCache /\ ParkedAgg /\ InitScore /\ ParkedJob /\ ParkedExt

InitGradeOnly == ParkedCache /\ ParkedAgg /\ InitGrade /\ ParkedJob /\ ParkedExt

InitSaveOnly == ParkedCache /\ ParkedAgg /\ ParkedAlign /\ ParkedJob /\ ParkedExt

InitJobOnly == ParkedCache /\ ParkedAgg /\ ParkedAlign /\ InitJob /\ ParkedExt

InitCreateOnly ==
    ParkedCache /\ ParkedAgg /\ ParkedAlign /\ ParkedJob /\ InitCreate /\ ParkedMetrics
    /\ ParkedTikTok /\ ParkedDelete

InitMetricsOnly ==
    ParkedCache /\ ParkedAgg /\ ParkedAlign /\ ParkedJob /\ ParkedCreate /\ InitMetrics
    /\ ParkedTikTok /\ ParkedDelete

InitTikTokOnly ==
    ParkedCache /\ ParkedAgg /\ ParkedAlign /\ ParkedJob /\ ParkedCreate /\ ParkedMetrics
    /\ InitTikTok /\ ParkedDelete

InitDeleteOnly ==
    ParkedCache /\ ParkedAgg /\ ParkedAlign /\ ParkedJob /\ ParkedCreate /\ ParkedMetrics
    /\ ParkedTikTok /\ InitDelete

\* concurrent getArtistCardWithMetrics requests
SpecCache ==
    /\ InitCacheOnly
    /\ [][NextCache]_vars

\* updateArtistCardMetrics calls on a table of two cards
SpecUpdate ==
    /\ InitUpdateOnly
    /\ [][NextUpdate]_vars

\* the aggregation steps of getArtistStreamingMetrics on bounded inputs
SpecAgg ==
    /\ InitAggOnly
    /\ [][NextAgg]_vars

\* alignTimeSeries on bounded inputs
SpecAlign ==
    /\ InitAlignOnly
    /\ [][NextAlign]_vars

\* calculateSongReactivity on bounded inputs
SpecScore ==
    /\ InitScoreOnly
    /\ [][NextScore]_vars

\* mapCorrelationToGrade on bounded inputs
SpecGrade ==
    /\ InitGradeOnly
    /\ [][NextGrade]_vars

\* saveReactivityScore calls on an empty score table
SpecSave ==
    /\ InitSaveOnly
    /\ [][NextSave]_vars

\* concurrent findOrCreateArtistCardByUrl requests
SpecCreate ==
    /\ InitCreateOnly
    /\ [][NextCreate]_vars

\* getArtistStreamingMetrics on bounded URLs and warehouse answers
SpecMetrics ==
    /\ InitMetricsOnly
    /\ [][NextMetrics]_vars

\* concurrent getInternalTikTokId lookups
SpecTikTok ==
    /\ InitTikTokOnly
    /\ [][NextTikTok]_vars

\* concurrent DELETE requests and cached GET requests
SpecDelete ==
    /\ InitDeleteOnly
    /\ [][NextDelete]_vars

\* one run of the batch job
SpecJob ==
    /\ InitJobOnly
    /\ [][NextJob]_vars

\* the job is one sequential async function: the event loop runs its next
\* step whenever the awaited query has settled
FairSpecJob == SpecJob /\ WF_vars(NextJob)

(***************************************************************************)
(* Properties of the metrics cache (SpecCache).                            *)
(***************************************************************************)
Uniform(by) ==
    /\ by.thisWeek = by.lastWeek
    /\ by.lastWeek = by.percentChange
    /\ by.percentChange = by.updatedAt

\* C1: under any interleaving of refreshes and reads of one (card, region),
\* the stored entry, and every copy of it a request has read, has its
\* thisWeek, lastWeek, percentChange and timestamp written by one and the
\* same refresh.
C1_NoMixedEntry ==
    /\ \A c \in CardIds, r \in Regions : Uniform(cards[c][r].by)
    /\ \A p \in Procs, r \in Regions : Uniform(call[p].card[r].by)

\* C1 witness: a request read the entry written by refresh 2, which the
\* slower refresh 1 of the same region has overwritten since.
C1_Witness ==
    \E p \in Procs, r \in Regions :
        /\ call[p].pc = "done" /\ call[p].outcome = "returned"
        /\ call[p].card[r].by.percentChange = 2
        /\ cards[1][r].by.percentChange = 1

\* C2: a refresh whose recomputation fails leaves the table as it was, and
\* the table changes only in the UPDATE of a refresh whose recomputation
\* produced metrics, and then only in that refresh's (card, region) entry.
C2_FailedRecalcKeepsEntry ==
    [][ /\ \A p \in Procs :
              (call[p].pc = "recalc" /\ call'[p].pc = "done") => cards' = cards
        /\ cards' # cards =>
              \E p \in Procs :
                  /\ call[p].pc = "update" /\ call'[p].pc = "reread"
                  /\ IsSome(call[p].fresh)
                  /\ \A c \in CardIds, r \in Regions :
                        <<c, r>> # <<call[p].id, call[p].region>>
                            => cards'[c][r] = cards[c][r] ]_vars

\* C2 witness: a recomputation failed while a previously stored entry exists
\* for that (card, region), and the entry is still there.
C2_Witness ==
    \E p \in Procs :
        /\ call[p].pc = "done" /\ call[p].recalculated /\ IsNone(call[p].metrics)
        /\ IsSome(cards[call[p].id][call[p].region].updatedAt)
        /\ cards[call[p].id][call[p].region] = call[p].card[call[p].region]

\* C3 (as claimed): when the recomputation fails because a fetch throws,
\* getArtistCardWithMetrics throws.
C3_FetchFailurePropagates ==
    \A p \in Procs :
        (call[p].pc = "done" /\ call[p].fetchError) => call[p].outcome = "threw"

\* C4 (as claimed): when the refresh fails and a prior entry exists, the
\* caller receives the prior entry's metrics.
C4_StaleServedOnFailure ==
    \A p \in Procs :
        ( /\ call[p].pc = "done" /\ call[p].recalculated
          /\ call[p].outcome = "returned" /\ ~call[p].fromCache
          /\ IsSome(call[p].card[call[p].region].updatedAt)
          /\ cards[call[p].id][call[p].region] = call[p].card[call[p].region]
          /\ call[p].fetchError )
        => call[p].metrics = Some(cachedMetrics(call[p].card, call[p].region))

\* C5: a read that finds a stored entry with now - computedAt < ttl returns
\* the stored thisWeek, lastWeek and percentChange, invokes no recomputation
\* and writes nothing; an entry of age >= ttl, or without timestamp, is not
\* served and the request goes on to recompute.
C5_CacheHitIsPure ==
    [][ \A p \in Procs :
          ( /\ call[p].pc = "idle" /\ call'[p].pc # "idle"
            /\ call'[p].id \in CardIds /\ call'[p].outcome # "threw" )
          => LET e == cards[call'[p].id][call'[p].region]
                 f == call'[p]
             IN  IF IsSome(e.updatedAt) /\ now - Val(e.updatedAt) < CACHE_DURATION_MS
                 THEN /\ f.pc = "done" /\ f.outcome = "returned" /\ f.fromCache
                      /\ IsSome(f.metrics)
                      /\ Some(Val(f.metrics).thisWeek) = e.thisWeek
                      /\ Some(Val(f.metrics).lastWeek) = e.lastWeek
                      /\ Val(f.metrics).percentageChange = e.percentChange
                      /\ f.card = cards[f.id]
                      /\ ~f.recalculated
                      /\ cards' = cards
                 ELSE f.pc = "recalc" /\ ~f.fromCache ]_vars

\* C5 witness: a request was served from the cache, and at this moment the
\* entry it was served from has reached the age ttl exactly.
C5_Witness ==
    \E p \in Procs :
        /\ call[p].pc = "done" /\ call[p].fromCache
        /\ Val(call[p].metrics).thisWeek = 3
        /\ now - Val(cards[call[p].id][call[p].region].updatedAt) = CACHE_DURATION_MS


\* TRUE when the entry would be served at the time t
ServedAt(entry, t) == IsSome(entry.updatedAt) /\ t - Val(entry.updatedAt) < CACHE_DURATION_MS

\* C19: a refresh writes one (card, region) entry: the stored thisWeek,
\* lastWeek, percentChange and timestamp of the other region of the card and
\* of every other card stay as they were, and so does their validity.
C19_RefreshTouchesOneEntry ==
    [][ cards' # cards =>
          \E c \in UpdCardIds, r \in Regions :
              \A c2 \in UpdCardIds, r2 \in Regions :
                  <<c2, r2>> # <<c, r>> =>
                      /\ cards'[c2][r2].thisWeek = cards[c2][r2].thisWeek
                      /\ cards'[c2][r2].lastWeek = cards[c2][r2].lastWeek
                      /\ cards'[c2][r2].percentChange = cards[c2][r2].percentChange
                      /\ cards'[c2][r2].updatedAt = cards[c2][r2].updatedAt
                      /\ ServedAt(cards'[c2][r2], now') = ServedAt(cards[c2][r2], now) ]_vars

\* C19 witness: card 1 was refreshed for GLOBAL at time 0 and for US one
\* cache duration later; GLOBAL has expired, US is valid, card 2 is untouched.
C19_Witness ==
    /\ now = CACHE_DURATION_MS
    /\ cards[1]["GLOBAL"].updatedAt = Some(0)
    /\ cards[1]["US"].updatedAt = Some(CACHE_DURATION_MS)
    /\ ~ServedAt(cards[1]["GLOBAL"], now)
    /\ ServedAt(cards[1]["US"], now)
    /\ 2 \in DOMAIN cards /\ cards[2] = NewCard

\* C25 (as claimed): a result that getArtistCardWithMetrics returns from a
\* refresh carries, in its metrics field, the thisWeek, lastWeek and
\* percentChange that the card of the same result stores for the region.
C25_ResultMetricsMatchCard ==
    \A p \in Procs :
        ( /\ call[p].pc = "done" /\ call[p].outcome = "returned"
          /\ call[p].recalculated /\ IsSome(call[p].metrics) )
        => LET entry == call[p].card[call[p].region]
               metrics == Val(call[p].metrics)
           IN  /\ entry.thisWeek = Some(metrics.thisWeek)
               /\ entry.lastWeek = Some(metrics.lastWeek)
               /\ entry.percentChange = metrics.percentageChange
(***************************************************************************)
(* Properties of the aggregator (SpecAgg, SpecCache).                      *)
(***************************************************************************)
\* C15: metrics whose lastWeek is 0 have a null percentChange, whatever
\* thisWeek is: those a recomputation produced, those a request returned
\* and those it returned from the cache.
C15_ZeroLastWeekNullChange ==
    \A p \in Procs :
        /\ IsSome(call[p].fresh) /\ Val(call[p].fresh).lastWeek = 0
              => IsNone(Val(call[p].fresh).percentageChange)
        /\ IsSome(call[p].metrics) /\ Val(call[p].metrics).lastWeek = 0
              => IsNone(Val(call[p].metrics).percentageChange)

\* C15 witness: a request served from the cache metrics with thisWeek 2,
\* lastWeek 0 and a null percentChange.
C15_Witness ==
    \E p \in Procs :
        /\ call[p].pc = "done" /\ call[p].fromCache
        /\ IsSome(call[p].metrics)
        /\ Val(call[p].metrics).thisWeek = 2
        /\ Val(call[p].metrics).lastWeek = 0
        /\ IsNone(Val(call[p].metrics).percentageChange)

\* the track-level sums as a pair
TrackSums == <<Val(Val(trackAggregated).thisWeek), Val(Val(trackAggregated).lastWeek)>>

\* C16: the artist-level fetch is invoked only when the track-level sums
\* were computed and are both exactly 0; with a non-zero sum in either week
\* it is not invoked.
C16_FallbackOnlyWhenEmpty ==
    aggPc = "done" /\ fallbackInvoked =>
        IsSome(trackAggregated) /\ TrackSums = <<0, 0>>

\* C16 witness: an artist with an artist-level record whose track sums are
\* 0 this week and 1 last week; the artist-level fetch was not invoked.
C16_Witness ==
    /\ aggPc = "done"
    /\ aggThrows = "none"
    /\ IsSome(accountRow)
    /\ trackAggregated = Some(Row(Some(0), Some(1)))
    /\ ~fallbackInvoked

\* the artist-level record with its nulls coerced to 0, zeros without one
FallbackPair ==
    IF IsSome(accountRow)
    THEN <<OrElse(Val(accountRow).thisWeek, 0), OrElse(Val(accountRow).lastWeek, 0)>>
    ELSE <<0, 0>>

\* C17: the weeks of the final metrics are the track-level sums when one of
\* them is non-zero and the artist-level record (nulls as 0) otherwise, both
\* weeks from the same source, and percentChange is taken from these weeks.
C17_NoBlending ==
    aggPc = "done" /\ IsSome(aggResult) =>
        LET m == Val(aggResult)
        IN  /\ IsSome(trackAggregated)
            /\ <<m.thisWeek, m.lastWeek>> =
                   IF TrackSums = <<0, 0>> THEN FallbackPair ELSE TrackSums
            /\ m.percentageChange =
                   IF m.lastWeek = 0 THEN None
                   ELSE Some(<<m.thisWeek - m.lastWeek, m.lastWeek>>)

\* C17 witness: track sums {0, 0} and the artist-level record {5, 4} give
\* {5, 4} with percentChange (5 - 4) / 4 = 0.25.
C17_Witness ==
    /\ aggPc = "done"
    /\ trackAggregated = Some(Row(Some(0), Some(0)))
    /\ accountRow = Some(Row(Some(5), Some(4)))
    /\ IsSome(aggResult)
    /\ Val(aggResult).thisWeek = 5 /\ Val(aggResult).lastWeek = 4
    /\ Val(aggResult).percentageChange = Some(<<1, 4>>)

\* the songs some track of the artist is mapped to and that have a row
SongsWithRow ==
    {s \in SongIds : /\ \E t \in Range(artistTrackIds) : songOfTrack[t] = s
                     /\ IsSome(weeklyTable[s])}

RECURSIVE SumThisWeek(_)
SumThisWeek(S) ==
    IF S = {} THEN 0
    ELSE LET s == CHOOSE x \in S : TRUE
         IN  OrElse(Val(weeklyTable[s]).thisWeek, 0) + SumThisWeek(S \ {s})

RECURSIVE SumLastWeek(_)
SumLastWeek(S) ==
    IF S = {} THEN 0
    ELSE LET s == CHOOSE x \in S : TRUE
         IN  OrElse(Val(weeklyTable[s]).lastWeek, 0) + SumLastWeek(S \ {s})

\* C18: the track-level sums are the sums of thisWeek and of lastWeek, null
\* as 0, over the rows of the songs that a track is mapped to, each row
\* once; unmapped tracks and songs without row add nothing, and when no
\* query throws the aggregation ends with sums and with metrics.
C18_TrackSums ==
    aggPc = "done" =>
        /\ IsSome(trackAggregated) =>
               TrackSums = <<SumThisWeek(SongsWithRow), SumLastWeek(SongsWithRow)>>
        /\ aggThrows = "none" => IsSome(trackAggregated) /\ IsSome(aggResult)

\* C18 witness: track 1 has no mapping, track 2 is mapped to song 1 whose
\* row is {1, null}; song 2 has a row but no track; the sums are {1, 0}.
C18_Witness ==
    /\ aggPc = "done"
    /\ aggThrows = "none"
    /\ artistTrackIds = <<1, 2>>
    /\ songOfTrack[1] = 0 /\ songOfTrack[2] = 1
    /\ weeklyTable[1] = Some(Row(Some(1), None))
    /\ IsSome(weeklyTable[2])
    /\ trackAggregated = Some(Row(Some(1), Some(0)))
    /\ IsSome(aggResult)


\* TRUE when two of the artist's tracks are mapped to the same song
SharedSong ==
    \E i, j \in DOMAIN artistTrackIds :
        /\ i < j
        /\ songOfTrack[artistTrackIds[i]] # 0
        /\ songOfTrack[artistTrackIds[i]] = songOfTrack[artistTrackIds[j]]

\* C27: when several tracks of the artist are mapped to one song, each song
\* with a row adds its thisWeek and lastWeek to the track-level sums exactly
\* once, however many tracks lead to it, and sums that are not both 0 are
\* the weeks of the response.
C27_SharedSongCountedOnce ==
    (aggPc = "done" /\ SharedSong /\ IsSome(trackAggregated)) =>
        /\ \A s \in SongsWithRow :
              /\ TrackSums[1] - SumThisWeek(SongsWithRow \ {s})
                    = OrElse(Val(weeklyTable[s]).thisWeek, 0)
              /\ TrackSums[2] - SumLastWeek(SongsWithRow \ {s})
                    = OrElse(Val(weeklyTable[s]).lastWeek, 0)
        /\ (IsSome(aggResult) /\ TrackSums # <<0, 0>>) =>
              <<Val(aggResult).thisWeek, Val(aggResult).lastWeek>> = TrackSums

\* C27 witness: tracks 1 and 2 are both mapped to song 1, whose row is
\* {1, 1}; the sums and the response are {1, 1}, not {2, 2}.
C27_Witness ==
    /\ aggPc = "done"
    /\ artistTrackIds = <<1, 2>>
    /\ songOfTrack[1] = 1 /\ songOfTrack[2] = 1
    /\ weeklyTable[1] = Some(Row(Some(1), Some(1)))
    /\ trackAggregated = Some(Row(Some(1), Some(1)))
    /\ IsSome(aggResult)
    /\ Val(aggResult).thisWeek = 1 /\ Val(aggResult).lastWeek = 1
(***************************************************************************)
(* Properties of the batch job (SpecJob, FairSpecJob).                     *)
(***************************************************************************)

\* C6 (as claimed): at the end of the run every unit whose fetch threw has
\* been counted as an error, and none of them as processed.
C6_FailedFetchCountedAsError ==
    jobPc = "done" =>
        /\ errorsEncountered >= Cardinality(fetchThrew)
        /\ songsProcessed + Cardinality(fetchThrew \cap attemptedSongs)
              <= Cardinality(attemptedSongs)

\* the linked songs of the artists whose own queries succeeded
SongsDue ==
    { u \in attemptedArtists \X {1, 2} :
        /\ <<u[1], 0>> \notin fetchThrew
        /\ Song(Some(u[2])) \in Range(catalog[u[1]].songs)
        /\ Some(u[2]) \in catalog[u[1]].links }

\* C7: the run always reaches its summary, and by then every artist of the
\* fetched list and every linked song of every artist has been attempted,
\* whatever failed before it; each attempted song moved exactly one counter.
C7_BatchAlwaysCompletes ==
    /\ <>(jobPc = "done")
    /\ [](jobPc = "done" =>
            /\ attemptedArtists = Range(artists)
            /\ attemptedSongs = SongsDue
            /\ songsProcessed + errorsEncountered = Cardinality(attemptedSongs))

\* C7 witness: the run ended although every one of at least three songs
\* failed, and all artists were attempted.
C7_Witness ==
    /\ jobPc = "done"
    /\ songsProcessed = 0
    /\ errorsEncountered >= 3
    /\ attemptedArtists = ArtistIds


\* C20: the score table never holds two rows of one key (song, region,
\* window); after a save the table holds the saved row; a save leaves the
\* rows of all other keys as they were; and a save that repeats the values
\* of the row it finds changes only that row's calculated-at timestamp.
C20_IdempotentUpsert ==
    /\ [](\A i, j \in DOMAIN scores : KeyOf(scores[i]) = KeyOf(scores[j]) => i = j)
    /\ [](IsSome(lastSave) => \E i \in DOMAIN scores : scores[i] = Val(lastSave).source)
    /\ [][ lastSave' # lastSave =>
             LET source == Val(lastSave').source
             IN  \A i \in DOMAIN scores :
                     /\ i \in DOMAIN scores'
                     /\ KeyOf(scores[i]) # KeyOf(source) => scores'[i] = scores[i]
                     /\ ( /\ KeyOf(scores[i]) = KeyOf(source)
                          /\ scores[i].artistCardId = source.artistCardId
                          /\ scores[i].correlation = source.correlation
                          /\ scores[i].grade = source.grade )
                        => scores' = [scores EXCEPT ![i].calculatedAt = source.calculatedAt]
          ]_vars

\* C20 witness: the first of two rows was saved again half a cache duration
\* later; the save matched it, the table still has two rows and the row
\* carries the later timestamp.
C20_Witness ==
    /\ IsSome(lastSave)
    /\ Val(lastSave).matched
    /\ Len(scores) = 2
    /\ scores[1] = Val(lastSave).source
    /\ scores[1].calculatedAt = TickMs
    /\ scores[2].calculatedAt = 0

\* the songs of an artist card that have a linked UGC source, by the
\* warehouse's rows
LinkedSongsOf(a) == LinkedSongs(catalog[a].songs, catalog[a].links)

\* C21: an artist with no songs, or with no song that has a linked UGC
\* source, is skipped: its step of the artist loop goes on to the next artist
\* and leaves the score table and both counters as they were, and no song of
\* it is ever attempted and no score row of it ever stored.
C21_UnlinkedArtistSkipped ==
    /\ [](\A a \in ArtistIds :
            Len(LinkedSongsOf(a)) = 0 =>
                /\ \A u \in attemptedSongs : u[1] # a
                /\ \A i \in DOMAIN scores : scores[i].artistCardId # a)
    /\ [][(/\ jobPc = "artist"
           /\ ai <= Len(artists)
           /\ Len(LinkedSongsOf(artists[ai])) = 0)
          => /\ jobPc' = "artist"
             /\ ai' = ai + 1
             /\ attemptedArtists' = attemptedArtists \cup {artists[ai]}
             /\ UNCHANGED <<scores, lastSave, songsProcessed, errorsEncountered,
                            attemptedSongs>>]_vars

\* C21 witness: the run ended after skipping an artist without songs and an
\* artist whose only song has no linked UGC, with both counters at 0.
C21_Witness ==
    /\ jobPc = "done"
    /\ attemptedArtists = ArtistIds
    /\ \E a \in ArtistIds : Len(catalog[a].songs) = 0
    /\ \E a \in ArtistIds : Len(catalog[a].songs) > 0 /\ Len(LinkedSongsOf(a)) = 0
    /\ songsProcessed = 0
    /\ errorsEncountered = 0

\* C26: every step of the song loop attempts one song not attempted before
\* and moves exactly one counter by one: songsProcessed when the score was
\* upserted for that song, errorsEncountered when nothing was stored; no
\* other step moves a counter or the score table.  So at every moment
\* songsProcessed + errorsEncountered is the number of attempted songs (no
\* artist's processing throws before the song loop: failed song and link
\* queries answer the empty list).
C26_OneCounterPerSong ==
    /\ [](songsProcessed + errorsEncountered = Cardinality(attemptedSongs))
    /\ [][IF jobPc = "song"
          THEN LET a == artists[ai]
                   s == Val(songsToProcess[si].unifiedSongId)
               IN  /\ <<a, s>> \notin attemptedSongs
                   /\ attemptedSongs' = attemptedSongs \cup {<<a, s>>}
                   /\ \/ /\ songsProcessed' = songsProcessed + 1
                         /\ errorsEncountered' = errorsEncountered
                         /\ IsSome(lastSave')
                         /\ Val(lastSave').source.unifiedSongId = s
                         /\ Val(lastSave').source.artistCardId = a
                         /\ scores' = saveReactivityScore(scores, Val(lastSave').source)
                      \/ /\ errorsEncountered' = errorsEncountered + 1
                         /\ songsProcessed' = songsProcessed
                         /\ scores' = scores
                         /\ lastSave' = lastSave
          ELSE UNCHANGED <<songsProcessed, errorsEncountered, scores, lastSave,
                           attemptedSongs>>]_vars

\* C26 witness: the run ended with songs counted as processed and songs
\* counted as errors, three or more in all.
C26_Witness ==
    /\ jobPc = "done"
    /\ songsProcessed >= 1
    /\ errorsEncountered >= 1
    /\ songsProcessed + errorsEncountered >= 3
    /\ Len(scores) >= 1
(***************************************************************************)
(* Properties of the aligner and the scorer (SpecAlign, SpecScore).        *)
(***************************************************************************)
Max(S) == CHOOSE x \in S : \A y \in S : y <= x

\* the value a series holds for a date: that of its last point of that date
ValueOn(series, date) ==
    LET idx == {k \in 1..Len(series) : series[k].date = date}
    IN  IF idx = {} THEN None ELSE series[Max(idx)].value

\* the days of the range on which the song has both a streaming value and,
\* through a linked sound, a UGC value
PairedDays ==
    { t \in ParseDate(startDate)..ParseDate(endDate) :
        /\ IsSome(ValueOn(series1, ToISODate(t)))
        /\ Len(soundIds) > 0
        /\ IsSome(ValueOn(series2, ToISODate(t))) }

\* C8 (as claimed): the correlation is null exactly when fewer than 2 paired
\* samples exist in the range, also when a fetch failed.
C8_NullOnlyWhenTooFewPairs ==
    alPc = "scored" => (IsNone(score.correlation) <=> Cardinality(PairedDays) < 2)

\* the calendar, day by day
NextCalendarDay(date) ==
    IF date[3] < DaysInMonth(date[1], date[2]) THEN <<date[1], date[2], date[3] + 1>>
    ELSE IF date[2] < 12 THEN <<date[1], date[2] + 1, 1>>
    ELSE <<date[1] + 1, 1, 1>>

\* the calendar days from one date to a later one, both included
RECURSIVE DaysFromTo(_, _)
DaysFromTo(from, to) ==
    IF from = to THEN <<from>> ELSE <<from>> \o DaysFromTo(NextCalendarDay(from), to)

\* C9: for start <= end both aligned sequences have as many elements as
\* there are calendar days from start to end inclusive, whatever the series.
C9_AlignedLength ==
    alPc = "aligned" =>
        /\ Len(aligned.alignedValues1) = Len(DaysFromTo(startDate, endDate))
        /\ Len(aligned.alignedValues2) = Len(DaysFromTo(startDate, endDate))

\* C9 witness: a range across the end of the year, aligned to 4 days, with
\* a first series whose two points lie outside the range and an empty second.
C9_Witness ==
    /\ alPc = "aligned"
    /\ startDate = <<2023, 12, 30>> /\ endDate = <<2024, 1, 2>>
    /\ Len(series1) = 2 /\ series2 = <<>>
    /\ Len(aligned.alignedValues1) = 4 /\ Len(aligned.alignedValues2) = 4

\* C10: the aligned value of a day is the series' value for that day (of the
\* last point of that date) when the series has one, null included, and null
\* when the series has no point of that date; no earlier value is repeated.
C10_NoForwardFill ==
    alPc = "aligned" =>
        LET days == DaysFromTo(startDate, endDate)
        IN  /\ \A i \in DOMAIN days \cap DOMAIN aligned.alignedValues1 :
                  aligned.alignedValues1[i] = ValueOn(series1, days[i])
            /\ \A i \in DOMAIN days \cap DOMAIN aligned.alignedValues2 :
                  aligned.alignedValues2[i] = ValueOn(series2, days[i])

\* C10 witness: the first series has the value 2 on Feb 28 and no point on
\* the two following days, which are aligned to null.
C10_Witness ==
    /\ alPc = "aligned"
    /\ startDate = <<2024, 2, 28>> /\ endDate = <<2024, 3, 1>>
    /\ series1 = <<Point(<<2024, 2, 28>>, Some(2))>>
    /\ aligned.alignedValues1 = <<Some(2), None, None>>


\* C11: when fewer than 2 days of the range have both a streaming value and
\* a UGC value of a linked sound (one pair only, or no linked sound), the
\* scorer returns {correlation: null, grade: 'N/A'} and never runs the
\* correlation.
C11_TooFewPairsGivesNull ==
    alPc = "scored" /\ Cardinality(PairedDays) < 2 =>
        /\ score = [correlation |-> None, grade |-> "N/A"]
        /\ ~sampled

\* C11 witness: every query answers, a sound is linked and exactly one day
\* has both values; the result is null / N/A without a correlation run.
C11_Witness ==
    /\ alPc = "scored"
    /\ failed = "none"
    /\ Len(soundIds) > 0
    /\ Cardinality(PairedDays) = 1
    /\ IsNone(score.correlation) /\ score.grade = "N/A"
    /\ ~sampled

\* C12: in every result of calculateSongReactivity, whether computed,
\* degenerate or produced by the catch block, the grade is 'N/A' exactly
\* when the correlation is null.
C12_GradeNAIffNull ==
    alPc = "scored" => (score.grade = "N/A" <=> IsNone(score.correlation))

\* C12 witness: a computed correlation with a grade, here A.
C12_Witness ==
    /\ alPc = "scored"
    /\ failed = "none"
    /\ sampled
    /\ IsSome(score.correlation)
    /\ score.grade = "A"

\* C13: for a correlation c = n / 100 the grade is A when c > 0.9, B when
\* 0.8 < c <= 0.9, C when 0.7 < c <= 0.8 and D when c <= 0.7, so that 0.9
\* is B, 0.8 is C and 0.7 is D.
C13_GradeThresholds ==
    alPc = "graded" /\ IsSome(gradeIn) =>
        LET n == Val(gradeIn).num
        IN  /\ n > 90 => score.grade = "A"
            /\ 80 < n /\ n <= 90 => score.grade = "B"
            /\ 70 < n /\ n <= 80 => score.grade = "C"
            /\ n <= 70 => score.grade = "D"

\* C13 witness: the correlation 0.9 graded B.
C13_Witness ==
    /\ alPc = "graded"
    /\ gradeIn = Some(Hundredths(90))
    /\ score.grade = "B"

\* the paired values of the streaming and of the UGC series
PairedStreamValues == {Val(ValueOn(series1, ToISODate(t))) : t \in PairedDays}

PairedUgcValues == {Val(ValueOn(series2, ToISODate(t))) : t \in PairedDays}

\* C14: when every query answers, at least 2 paired samples exist and the
\* paired streaming values or the paired UGC values are all equal, the
\* scorer returns the correlation 0 with grade D, not null / 'N/A'.
C14_FlatSeriesGivesZero ==
    /\ alPc = "scored"
    /\ ~ScoreFetchThrows(soundIds, failed)
    /\ Cardinality(PairedDays) >= 2
    /\ (Cardinality(PairedStreamValues) = 1 \/ Cardinality(PairedUgcValues) = 1)
    => /\ IsSome(score.correlation)
       /\ Val(score.correlation).num = 0
       /\ score.grade = "D"

\* C14 witness: streaming constant at 2 against UGC alternating 1, 2, 1 over
\* the three days of the range, scored 0 / D.
C14_Witness ==
    /\ alPc = "scored"
    /\ failed = "none"
    /\ Len(soundIds) > 0
    /\ series1 = <<Point(<<2024, 2, 28>>, Some(2)), Point(<<2024, 2, 29>>, Some(2)),
                   Point(<<2024, 3, 1>>, Some(2))>>
    /\ series2 = <<Point(<<2024, 2, 28>>, Some(1)), Point(<<2024, 2, 29>>, Some(2)),
                   Point(<<2024, 3, 1>>, Some(1))>>
    /\ score = [correlation |-> Some(ZeroCorrelation), grade |-> "D"]
(***************************************************************************)
(* Properties of URL resolution and card creation (SpecCreate).            *)
(***************************************************************************)
\* C22: at most one artist card exists per Spotify artist id, whatever the
\* sequence or interleaving of findOrCreateArtistCardByUrl calls, and a call
\* that found an existing card has written nothing.
C22_OneCardPerExternalId ==
    /\ \A i, j \in DOMAIN artistCards :
          artistCards[i].SPOTIFY_ARTIST_ID = artistCards[j].SPOTIFY_ARTIST_ID => i = j
    /\ \A p \in Procs : creq[p].outcome = "found" => ~creq[p].wrote

\* TRUE when spotify_accounts holds a row of this Spotify id
AccountExists(spotifyId) == \E r \in SpotifyAccounts : r.SPOTIFY_ID = spotifyId

\* C23: a call of getArtistDataByUrl for a URL that is no valid artist URL,
\* or whose artist has no row in spotify_accounts, answers null without
\* throwing and without fetching track ids; the call throws only when the
\* query it issued threw.
C23_NotFoundIsNull ==
    \A p \in Procs :
        creq[p].pc # "idle" =>
            LET r == creq[p].resolved
                id == extractSpotifyArtistIdFromUrl(creq[p].url)
            IN  /\ IsNone(id) =>
                     r.outcome = "null" /\ ~r.accountQueried /\ ~r.tracksFetched
                /\ (IsSome(id) /\ creq[p].throws # "account" /\ ~AccountExists(Val(id))) =>
                     r.outcome = "null" /\ ~r.tracksFetched
                /\ r.outcome = "threw" =>
                     \/ creq[p].throws = "account" /\ r.accountQueried
                     \/ creq[p].throws = "tracks" /\ r.tracksFetched
                /\ r.outcome = "null" => creq[p].outcome = "null" /\ ~creq[p].wrote

\* C23 witness: a call for the valid URL of an artist without account has
\* returned null, in a world whose track query would have thrown.
C23_Witness ==
    \E p \in Procs :
        /\ creq[p].pc = "done"
        /\ extractSpotifyArtistIdFromUrl(creq[p].url) = Some("x")
        /\ creq[p].throws = "tracks"
        /\ creq[p].resolved.outcome = "null"
        /\ creq[p].resolved.accountQueried
        /\ creq[p].outcome = "null"
(***************************************************************************)
(* Properties of getArtistStreamingMetrics (SpecMetrics).                  *)
(***************************************************************************)
\* TRUE when the artist data of the call's URL cannot be processed: the URL
\* is no valid artist URL or the artist has no account
ArtistDataUnavailable ==
    LET id == extractSpotifyArtistIdFromUrl(mUrl)
    IN  IsNone(id) \/ ~AccountExists(Val(id))

\* C24 (as claimed): getArtistStreamingMetrics returns null only when the
\* artist data cannot be processed (invalid URL or artist not found); a
\* failure of an underlying query is rethrown, never answered by null.
C24_NullOnlyWhenArtistUnavailable ==
    (mPc = "done" /\ IsNone(mResponse)) => ArtistDataUnavailable
(***************************************************************************)
(* Properties of the TikTok id lookup cache (SpecTikTok).                  *)
(***************************************************************************)
\* C28: the cache holds only answers of completed queries; a lookup whose
\* query throws leaves the cache as it was; the cache changes only when a
\* query completes, and then only by storing that answer (the id, or null)
\* under the looked-up id; a lookup of a stored id returns the stored value
\* without a query, and a lookup of an id that is not stored queries.
C28_ErrorsNotCached ==
    /\ [](\A k \in DOMAIN tiktokIdCache : tiktokIdCache[k] = TikTokSoundId(k))
    /\ [][\A p \in Procs :
            /\ (tkReq[p].pc = "query" /\ tkReq'[p].outcome = "threw")
                  => tiktokIdCache' = tiktokIdCache
            /\ (tkReq[p].pc = "query" /\ tkReq'[p].outcome = "stored")
                  => /\ tkReq[p].id \in DOMAIN tiktokIdCache'
                     /\ tiktokIdCache'[tkReq[p].id] = tkReq'[p].value
                     /\ \A k \in DOMAIN tiktokIdCache :
                           k # tkReq[p].id => /\ k \in DOMAIN tiktokIdCache'
                                              /\ tiktokIdCache'[k] = tiktokIdCache[k]
            /\ (tkReq[p].pc = "idle" /\ tkReq'[p].pc # "idle")
                  => IF tkReq'[p].id \in DOMAIN tiktokIdCache
                     THEN /\ tkReq'[p].pc = "done"
                          /\ tkReq'[p].outcome = "hit"
                          /\ ~tkReq'[p].queried
                          /\ tkReq'[p].value = tiktokIdCache[tkReq'[p].id]
                     ELSE tkReq'[p].pc = "query"]_vars
    /\ [][tiktokIdCache' # tiktokIdCache =>
            \E p \in Procs : tkReq[p].pc = "query" /\ tkReq'[p].outcome = "stored"]_vars

\* C28 witness: a lookup of e1 threw and e1 is not stored, while a lookup of
\* e2 returned the stored null without a query.
C28_Witness ==
    \E p, q \in Procs :
        /\ tkReq[p].pc = "done" /\ tkReq[p].id = "e1" /\ tkReq[p].outcome = "threw"
        /\ "e1" \notin DOMAIN tiktokIdCache
        /\ tkReq[q].pc = "done" /\ tkReq[q].id = "e2" /\ tkReq[q].outcome = "hit"
        /\ tkReq[q].value = None /\ ~tkReq[q].queried
(***************************************************************************)
(* Properties of the DELETE endpoints and the response cache (SpecDelete). *)
(***************************************************************************)
\* the cards of the initial table whose row is gone
AbsentCards == DelCardIds \ cardRows

\* C29: deleteArtistCard deletes the songs, then the UGC links, then the card
\* row, each only after the previous deletion succeeded: whatever state it
\* leaves behind, failures part-way included, a card's row is absent only if
\* none of its song rows and none of its link rows is left; the card row is
\* deleted only by a call whose two earlier deletions succeeded; and the call
\* returns true (the handler answers 204) only after three successful
\* deletions.
C29_CardDeletedLast ==
    /\ [](\A c \in AbsentCards :
            /\ \A r \in songRows : r[1] # c
            /\ \A r \in linkRows : r[1] # c)
    /\ [](\A p \in Procs :
            (hreq[p].kind = "deleteCard" /\ hreq[p].pc = "respond") => hreq[p].steps = 3)
    /\ [][\A p \in Procs :
            (cardRows' # cardRows /\ hreq'[p] # hreq[p]) => hreq[p].steps = 2]_vars

\* a deletion that failed part-way left the card row with its links, and
\* another one went through
C29_Witness ==
    /\ \E p \in Procs :
         /\ hreq[p].kind = "deleteCard"
         /\ hreq[p].outcome = "threw"
         /\ hreq[p].steps = 1
         /\ hreq[p].id \in cardRows
         /\ \E r \in linkRows : r[1] = hreq[p].id
    /\ \E p \in Procs :
         /\ hreq[p].kind = "deleteCard"
         /\ hreq[p].outcome = "204"
         /\ hreq[p].id \in AbsentCards

\* C30: once a DELETE of a card or of a UGC link has been answered 204, no GET
\* is answered from the response cache with a body that still holds the
\* deleted row.
C30_NoStaleResponseAfterDelete ==
    \A p \in Procs :
        (hreq[p].kind = "get" /\ hreq[p].fromCache)
            => hreq[p].body \cap hreq[p].deletedBefore = {}

====
